---------------------------- MODULE Spec2Model ----------------------------
(***************************************************************************)
(* Lock-free stacks of chapter07_lock_free_data_structures:                *)
(*   lock_free_stack.h            push, pop (threads_in_pop counter),      *)
(*                                pop_using_hazard_pointers                *)
(*   hazard_pointer.h             the hazard pointer table and the list of *)
(*                                nodes to reclaim                         *)
(*   lock_free_stack_ref_count.h  refcount::lock_free_stack (split count)  *)
(*                                                                         *)
(* One step of the model is one access to shared memory (an atomic         *)
(* operation on head, a counter, a hazard slot or a list head, or a        *)
(* dereference of a node), so that every interleaving of the C++ threads   *)
(* at that grain is a behaviour.  Node memory is a pool of addresses that  *)
(* `new` may hand out again after `delete`.                                *)
(*                                                                         *)
(* The files do not compile as they stand (missing semicolons, and in      *)
(* pop_using_hazard_pointers the local declared as `temp` is assigned as   *)
(* `tmp`); the model reads them with the semicolons in place and `tmp` as  *)
(* the declared `temp`.  pop_using_hazard_pointers has no return           *)
(* statement: the value its caller receives is indeterminate.              *)
(*                                                                         *)
(* Atomic operations take effect one at a time in a single order; the     *)
(* memory_order arguments of the split-count stack are not modelled.       *)
(*                                                                         *)
(* HierarchicalMutex of chapter03/hierarchical_mutex.h is a further        *)
(* program of the model (variant "mutex"): threads call lock, try_lock     *)
(* and unlock on mutexes of arbitrary hierarchy values.                    *)
(***************************************************************************)
EXTENDS Integers, Sequences, FiniteSets

\* ------------------------------------------------------------- bounds
\* Two threads call push and pop, MaxPush and MaxPop times in all.
MaxPush == 2
MaxPop == 3
MaxNodes == 2
HazardSlots == 2
MaxExternalCount == 4
\* NumMutexes HierarchicalMutex objects with values 0..UlongMax; UlongMax
\* stands for ULONG_MAX, the largest unsigned long.
NumMutexes == 2
UlongMax == 3

Threads == {1, 2}
Addr == 1..MaxNodes
Slots == 1..HazardSlots
Values == 1..MaxPush
Mutexes == 1..NumMutexes
Levels == 0..UlongMax

\* ------------------------------------------------------------- encodings
Null == 0
NoThread == 0
Empty == 0
NoRet == -1
Indeterminate == -2
ResourceError == -3
OtherThread == 9
HierarchyError == -4
ReturnedTrue == 1
ReturnedFalse == 0
NoMutex == 0

VARIABLES
    variant,            \* what is under test: the stack "counter", "hazard" or
                        \* "split", the hierarchical "mutex", or the "queue"
    \* HierarchicalMutex
    hierarchyValue,             \* hierarchyValue of each mutex
    previousHierarchyValue,     \* previousHierarchyValue of each mutex
    thisThreadHierarchyValue,   \* the thread_local value of each thread
    internalMutex,              \* the thread that owns each internalMutex
    arg,                        \* arg[t]: the mutex t's lock() is blocked on
    held,                       \* held[t]: the mutexes t holds, oldest first
    \* node memory
    alloc,              \* alloc[a]: address a holds a live node
    data,               \* node::data (Empty once swapped out)
    next,               \* node::next (pointer part)
    next_count,         \* node::next.external_count (split count)
    internal_count,     \* node::internal_count (split count)
    hwm,                \* highest address handed out so far
    \* the stack
    head,               \* head (pointer part)
    head_count,         \* head.external_count (split count)
    threads_in_pop,
    to_be_deleted,
    \* hazard_pointer.h
    hp_id,              \* hazard_pointers[i].id
    hp_pointer,         \* hazard_pointers[i].pointer
    nodes_to_reclaim,
    reclaim_next,       \* data_to_reclaim::next of the entry that holds node a
    hazard,             \* the thread_local hp_owner's slot (0: not constructed)
    exited,             \* the threads that have ended
    \* each thread's position and locals
    pc, new_node, old_head, old_count, ptr, nxt, nxt_count, temp,
    nodes, last, scan, res, ret,
    \* what went wrong, if anything
    fault,
    \* history
    pushes,             \* number of push calls so far (the k-th pushes value k)
    futile,             \* failed link/unlink CASes since a CAS last decided a call's result
    pops,               \* number of pop calls so far
    nid,                \* nid[a]: which push allocated the node now at a
    abs_stack,          \* the sequential stack, updated at linearization points
    lin,                \* lin[t]: what the sequential stack gave t's pop
    unlinks,            \* unlinks[k]: successful unlink CASes on node k
    unlinker,           \* unlinker[k]: the thread whose CAS unlinked node k
    extracts,           \* extracts[k]: times node k's payload was swapped out
    extractor,          \* extractor[k]: the thread that swapped it out last
    frees,              \* frees[k]: times node k was deleted
    popped,             \* popped[v]: pops that returned v
    started,            \* threads that have called push or pop
    solo,               \* pops in a row begun with no other call in progress
    old_id,             \* old_id[t]: the node (by nid) t's pointer was read for
    released,           \* released[t]: the nodes (by nid) whose reference t gave back
                        \* after a failed unlink CAS
    \* simple_thread_safe_queue
    q_head,             \* head: the node head owns
    q_tail,             \* tail
    q_next,             \* node::next
    q_data,             \* node::data (Empty: null)
    q_nodes,            \* nodes allocated so far
    head_mutex,         \* the thread that holds head_mutex
    tail_mutex,         \* the thread that holds tail_mutex
    data_cond,          \* the threads blocked in data_cond.wait, not yet notified
    q_p,                \* push: the new node p
    q_value,            \* push: new_value
    q_seen,             \* wait_for_data: what get_tail() returned
    q_pushes,           \* calls of push so far
    q_pops              \* calls of wait_and_pop so far

queueVars == <<q_head, q_tail, q_next, q_data, q_nodes, head_mutex, tail_mutex,
               data_cond, q_p, q_value, q_seen, q_pushes, q_pops>>
mutexVars == <<hierarchyValue, previousHierarchyValue, thisThreadHierarchyValue,
               internalMutex, arg, held>>
heapVars == <<alloc, data, next, next_count, internal_count, hwm, nid>>
stackVars == <<head, head_count>>
counterVars == <<threads_in_pop, to_be_deleted>>
hazardVars == <<hp_id, hp_pointer, nodes_to_reclaim, reclaim_next, hazard>>
localVars == <<new_node, old_head, old_count, ptr, nxt, nxt_count, temp,
               nodes, last, scan, res>>
histVars == <<pushes, futile, pops, abs_stack, lin, unlinks, unlinker, extracts, extractor,
              frees, popped, started, solo, old_id, released>>
vars == <<variant, exited, queueVars, mutexVars, heapVars, stackVars, counterVars,
          hazardVars, pc, localVars, ret, fault, histVars>>
noFault == <<variant, exited, queueVars, mutexVars, heapVars, stackVars, counterVars,
             hazardVars, localVars, ret, histVars>>

\* ------------------------------------------------------------- construction
\* Threads other than the callers may be alive and own entries of the table:
\* having made their first pop_using_hazard_pointers earlier, they own the
\* first k entries (hp_owner scans from entry 0).  They make no call here.
\* k is none, all but one, or all of the entries.
SlotsOwnedByOthers(v) ==
    IF v = "hazard" THEN {0, HazardSlots - 1, HazardSlots} ELSE {0}

\* HierarchicalMutex(value), lines 36-38: any unsigned long is accepted, and
\* two mutexes may be given the same value.
HierarchyValues(v) ==
    IF v = "mutex" THEN [Mutexes -> Levels] ELSE {[m \in Mutexes |-> 0]}

\* The objects have no user constructor; head, threads_in_pop, to_be_deleted,
\* the table and nodes_to_reclaim start zero-initialized.
\* The nodes of a simple_thread_safe_queue: the one its constructor makes
\* and one for each push.
QNodes == 1..(MaxPush + 1)

Init ==
    /\ variant \in {"counter", "hazard", "split", "mutex", "queue"}
    /\ q_head = 1
    /\ q_tail = 1
    /\ q_next = [n \in QNodes |-> Null]
    /\ q_data = [n \in QNodes |-> Empty]
    /\ q_nodes = 1
    /\ head_mutex = NoThread
    /\ tail_mutex = NoThread
    /\ data_cond = {}
    /\ q_p = [t \in Threads |-> Null]
    /\ q_value = [t \in Threads |-> Empty]
    /\ q_seen = [t \in Threads |-> Null]
    /\ q_pushes = 0
    /\ q_pops = 0
    /\ hierarchyValue \in HierarchyValues(variant)
    /\ previousHierarchyValue = [m \in Mutexes |-> 0]
    /\ thisThreadHierarchyValue = [t \in Threads |-> UlongMax]
    /\ internalMutex = [m \in Mutexes |-> NoThread]
    /\ arg = [t \in Threads |-> NoMutex]
    /\ held = [t \in Threads |-> <<>>]
    /\ alloc = [a \in Addr |-> FALSE]
    /\ data = [a \in Addr |-> Empty]
    /\ next = [a \in Addr |-> Null]
    /\ next_count = [a \in Addr |-> 0]
    /\ internal_count = [a \in Addr |-> 0]
    /\ hwm = 0
    /\ head = Null
    /\ head_count = 0
    /\ threads_in_pop = 0
    /\ to_be_deleted = Null
    /\ \E k \in SlotsOwnedByOthers(variant) :
           hp_id = [i \in Slots |-> IF i <= k THEN OtherThread ELSE NoThread]
    /\ hp_pointer = [i \in Slots |-> Null]
    /\ nodes_to_reclaim = Null
    /\ reclaim_next = [a \in Addr |-> Null]
    /\ hazard = [t \in Threads |-> 0]
    /\ exited = {}
    /\ pc = [t \in Threads |-> "idle"]
    /\ new_node = [t \in Threads |-> Null]
    /\ old_head = [t \in Threads |-> Null]
    /\ old_count = [t \in Threads |-> 0]
    /\ ptr = [t \in Threads |-> Null]
    /\ nxt = [t \in Threads |-> Null]
    /\ nxt_count = [t \in Threads |-> 0]
    /\ temp = [t \in Threads |-> Null]
    /\ nodes = [t \in Threads |-> Null]
    /\ last = [t \in Threads |-> Null]
    /\ scan = [t \in Threads |-> 0]
    /\ res = [t \in Threads |-> Empty]
    /\ ret = [t \in Threads |-> NoRet]
    /\ fault = "none"
    /\ pushes = 0
    /\ futile = 0
    /\ pops = 0
    /\ nid = [a \in Addr |-> 0]
    /\ abs_stack = <<>>
    /\ lin = [t \in Threads |-> NoRet]
    /\ unlinks = [k \in Values |-> 0]
    /\ unlinker = [k \in Values |-> NoThread]
    /\ extracts = [k \in Values |-> 0]
    /\ extractor = [k \in Values |-> NoThread]
    /\ frees = [k \in Values |-> 0]
    /\ popped = [v \in Values \cup {Indeterminate} |-> 0]
    /\ started = {}
    /\ solo = 0
    /\ old_id = [t \in Threads |-> 0]
    /\ released = [t \in Threads |-> {}]

\* ------------------------------------------------------------- node memory
\* Undefined behaviour (a dereference of a null or deleted node, a second
\* delete) is recorded in fault and ends the process: no thread takes a
\* further step.
Crash(f) ==
    /\ fault' = f
    /\ pc' = [t \in Threads |-> "crashed"]
    /\ UNCHANGED noFault

\* The addresses operator new may return: a deleted node's address again, or
\* the next address never handed out.
AllocChoices ==
    {a \in Addr : a <= hwm /\ ~alloc[a]} \cup (IF hwm < MaxNodes THEN {hwm + 1} ELSE {})

Max(a, b) == IF a >= b THEN a ELSE b

\* new node(data_): data holds the value; the split-count node starts with
\* internal_count 0.  The k-th push stores value k.
NewNode(a) ==
    /\ alloc' = [alloc EXCEPT ![a] = TRUE]
    /\ data' = [data EXCEPT ![a] = pushes + 1]
    /\ internal_count' = [internal_count EXCEPT ![a] = 0]
    /\ hwm' = Max(hwm, a)
    /\ nid' = [nid EXCEPT ![a] = pushes + 1]
    /\ pushes' = pushes + 1

\* delete a, for a live node a: the memory goes back to the allocator.
DeleteNode(a) ==
    /\ alloc' = [alloc EXCEPT ![a] = FALSE]
    /\ data' = [data EXCEPT ![a] = Empty]
    /\ next' = [next EXCEPT ![a] = Null]
    /\ next_count' = [next_count EXCEPT ![a] = 0]
    /\ internal_count' = [internal_count EXCEPT ![a] = 0]
    /\ nid' = [nid EXCEPT ![a] = 0]
    /\ frees' = [frees EXCEPT ![nid[a]] = @ + 1]
    /\ UNCHANGED hwm

\* The call returns r to its caller; the locals go out of scope.
Return(t, r) ==
    /\ pc' = [pc EXCEPT ![t] = "idle"]
    /\ ret' = [ret EXCEPT ![t] = r]
    /\ popped' = IF r \in DOMAIN popped THEN [popped EXCEPT ![r] = @ + 1] ELSE popped
    /\ new_node' = [new_node EXCEPT ![t] = Null]
    /\ old_head' = [old_head EXCEPT ![t] = Null]
    /\ old_count' = [old_count EXCEPT ![t] = 0]
    /\ ptr' = [ptr EXCEPT ![t] = Null]
    /\ nxt' = [nxt EXCEPT ![t] = Null]
    /\ nxt_count' = [nxt_count EXCEPT ![t] = 0]
    /\ temp' = [temp EXCEPT ![t] = Null]
    /\ nodes' = [nodes EXCEPT ![t] = Null]
    /\ last' = [last EXCEPT ![t] = Null]
    /\ scan' = [scan EXCEPT ![t] = 0]
    /\ res' = [res EXCEPT ![t] = Empty]
    /\ old_id' = [old_id EXCEPT ![t] = 0]

\* No call of push or pop is in progress.
Quiescent == \A t \in Threads : pc[t] = "idle"

\* The sequential stack's pop.
AbsTop == IF abs_stack = <<>> THEN Empty ELSE Head(abs_stack)
AbsPop == IF abs_stack = <<>> THEN <<>> ELSE Tail(abs_stack)

\* ------------------------------------------------------------- push
\* lock_free_stack::push, line 91: new node(data).
Push(t) ==
    /\ variant \in {"counter", "hazard"}
    /\ pc[t] = "idle"
    /\ t \notin exited
    /\ pushes < MaxPush
    /\ \E a \in AllocChoices :
        /\ NewNode(a)
        /\ new_node' = [new_node EXCEPT ![t] = a]
    /\ pc' = [pc EXCEPT ![t] = "push_load"]
    /\ ret' = [ret EXCEPT ![t] = NoRet]
    /\ lin' = [lin EXCEPT ![t] = NoRet]
    /\ started' = started \cup {t}
    /\ solo' = 0
    /\ UNCHANGED <<variant, queueVars, released, exited, mutexVars, next, next_count,
                   stackVars, counterVars, hazardVars,
                   old_head, old_count, ptr, nxt, nxt_count, temp, nodes, last,
                   scan, res, fault, futile, pops, abs_stack, unlinks, unlinker, extracts,
                   extractor, frees, popped, old_id>>

\* line 94: new_node->next = head.load().
PushLoad(t) ==
    /\ pc[t] = "push_load"
    /\ next' = [next EXCEPT ![new_node[t]] = head]
    /\ pc' = [pc EXCEPT ![t] = "push_cas"]
    /\ UNCHANGED <<variant, queueVars, released, exited, mutexVars, alloc, data,
                   next_count, internal_count, hwm, nid,
                   stackVars, counterVars, hazardVars, localVars, ret, fault,
                   histVars>>

\* A push whose exchange on head does not compare.
PushCasSucceeds_Always(t) == TRUE

\* line 100: the comparison of head with new_node->next made by the CAS.
PushCasSucceeds(t) == head = next[new_node[t]]

\* A compare_exchange that fails and leaves its expected value as it was.
LoadedOnFailure_Kept(expected) == expected

\* lines 100 and 112: a failed compare_exchange stores the value it found in
\* head into its expected argument.
LoadedOnFailure(expected) == head

\* line 100: head.compare_exchange_weak(new_node->next, new_node).  A spurious
\* failure leaves new_node->next equal to head: the same state again.
PushCas(t) ==
    /\ pc[t] = "push_cas"
    /\ IF PushCasSucceeds(t)
       THEN /\ head' = new_node[t]
            /\ abs_stack' = <<data[new_node[t]]>> \o abs_stack
            /\ Return(t, NoRet)
            /\ futile' = 0
            /\ UNCHANGED <<heapVars, head_count>>
       ELSE /\ next' = [next EXCEPT ![new_node[t]] = LoadedOnFailure(@)]
            /\ futile' = futile + 1
            /\ UNCHANGED <<alloc, data, next_count, internal_count, hwm, nid,
                           stackVars, pc, localVars, ret, abs_stack, popped, old_id>>
    /\ UNCHANGED <<variant, queueVars, released, exited, mutexVars, counterVars,
                   hazardVars, fault, pushes, pops, lin, unlinks,
                   unlinker, extracts, extractor, frees, started, solo>>

\* ------------------------------------------------------------- pop, counter
\* lock_free_stack::pop, line 104: ++threads_in_pop.
CounterPop(t) ==
    /\ variant = "counter"
    /\ pc[t] = "idle"
    /\ pops < MaxPop
    /\ pops' = pops + 1
    /\ threads_in_pop' = threads_in_pop + 1
    /\ pc' = [pc EXCEPT ![t] = "cp_load"]
    /\ ret' = [ret EXCEPT ![t] = NoRet]
    /\ lin' = [lin EXCEPT ![t] = NoRet]
    /\ started' = started \cup {t}
    /\ solo' = IF Quiescent THEN solo + 1 ELSE 0
    /\ UNCHANGED <<variant, queueVars, released, exited, mutexVars, heapVars, stackVars,
                   to_be_deleted, hazardVars,
                   localVars, fault, pushes, futile, abs_stack, unlinks, unlinker,
                   extracts, extractor, frees, popped, old_id>>

\* line 105: old_head = head.load(); line 112 leaves the loop at once when
\* old_head is null.
CounterPopLoad(t) ==
    /\ pc[t] = "cp_load"
    /\ old_head' = [old_head EXCEPT ![t] = head]
    /\ old_id' = [old_id EXCEPT ![t] = IF head = Null THEN 0 ELSE nid[head]]
    /\ IF head = Null
       THEN /\ lin' = [lin EXCEPT ![t] = AbsTop]
            /\ pc' = [pc EXCEPT ![t] = "tr_check"]
       ELSE /\ pc' = [pc EXCEPT ![t] = "cp_next"]
            /\ UNCHANGED lin
    /\ UNCHANGED <<variant, queueVars, released, exited, mutexVars, heapVars, stackVars,
                   counterVars, hazardVars,
                   new_node, old_count, ptr, nxt, nxt_count, temp, nodes, last,
                   scan, res, ret, fault, pushes, futile, pops, abs_stack, unlinks, unlinker,
                   extracts, extractor, frees, popped, started, solo>>

\* line 112: the read of old_head->next for the CAS.
CounterPopNext(t) ==
    /\ pc[t] = "cp_next"
    /\ IF ~alloc[old_head[t]]
       THEN Crash("use_after_free")
       ELSE /\ nxt' = [nxt EXCEPT ![t] = next[old_head[t]]]
            /\ pc' = [pc EXCEPT ![t] = "cp_cas"]
            /\ UNCHANGED <<variant, queueVars, released, exited, mutexVars, heapVars,
                           stackVars, counterVars, hazardVars,
                           new_node, old_head, old_count, ptr, nxt_count, temp,
                           nodes, last, scan, res, ret, fault, histVars>>

\* A compare-exchange that takes the exchange without comparing.
UnlinkSucceeds_Always(t) == TRUE

\* An unlink CAS whose loser goes on as if it had won the node it was handed.
UnlinkCas_LoserProceeds(t, pcWon, pcLostNull, pcLost) ==
    IF head = old_head[t]
    THEN /\ head' = nxt[t]
         /\ lin' = [lin EXCEPT ![t] = AbsTop]
         /\ abs_stack' = AbsPop
         /\ unlinks' = [unlinks EXCEPT ![old_id[t]] = @ + 1]
         /\ unlinker' = [unlinker EXCEPT ![old_id[t]] = t]
         /\ pc' = [pc EXCEPT ![t] = pcWon]
         /\ futile' = 0
         /\ UNCHANGED <<old_head, old_id>>
    ELSE /\ old_head' = [old_head EXCEPT ![t] = head]
         /\ old_id' = [old_id EXCEPT ![t] = IF head = Null THEN 0 ELSE nid[head]]
         /\ lin' = [lin EXCEPT ![t] = IF head = Null THEN AbsTop ELSE lin[t]]
         /\ pc' = [pc EXCEPT ![t] = IF head = Null THEN pcLostNull ELSE pcWon]
         /\ futile' = futile + 1
         /\ UNCHANGED <<head, abs_stack, unlinks, unlinker>>

\* The unlink CAS on head shared by the two plain-pointer pops:
\* head.compare_exchange(old_head, old_head->next).  On failure old_head is
\* refreshed from head.
UnlinkSucceeds(t) == head = old_head[t]

UnlinkCas(t, pcWon, pcLostNull, pcLost) ==
    IF UnlinkSucceeds(t)
    THEN /\ head' = nxt[t]
         /\ lin' = [lin EXCEPT ![t] = AbsTop]
         /\ abs_stack' = AbsPop
         /\ unlinks' = [unlinks EXCEPT ![old_id[t]] = @ + 1]
         /\ unlinker' = [unlinker EXCEPT ![old_id[t]] = t]
         /\ pc' = [pc EXCEPT ![t] = pcWon]
         /\ futile' = 0
         /\ UNCHANGED <<old_head, old_id>>
    ELSE LET found == LoadedOnFailure(old_head[t]) IN
         /\ old_head' = [old_head EXCEPT ![t] = found]
         /\ old_id' = [old_id EXCEPT ![t] = IF found = Null THEN 0 ELSE nid[found]]
         /\ lin' = [lin EXCEPT ![t] = IF found = Null THEN AbsTop ELSE lin[t]]
         /\ pc' = [pc EXCEPT ![t] = IF found = Null THEN pcLostNull ELSE pcLost]
         /\ futile' = futile + 1
         /\ UNCHANGED <<head, abs_stack, unlinks, unlinker>>

\* line 112: head.compare_exchange_weak(old_head, old_head->next).
CounterPopCas(t) ==
    /\ pc[t] = "cp_cas"
    /\ UnlinkCas(t, "cp_swap", "tr_check", "cp_next")
    /\ UNCHANGED <<variant, queueVars, released, exited, mutexVars, heapVars,
                   head_count, counterVars, hazardVars,
                   new_node, old_count, ptr, nxt, nxt_count, temp, nodes, last,
                   scan, res, ret, fault, pushes, pops, extracts, extractor, frees,
                   popped, started, solo>>

\* line 119: res.swap(old_head->data).
SwapData(t, p, pcNext) ==
    IF ~alloc[p]
    THEN Crash("use_after_free")
    ELSE /\ res' = [res EXCEPT ![t] = data[p]]
         /\ data' = [data EXCEPT ![p] = Empty]
         /\ extracts' = [extracts EXCEPT ![nid[p]] = @ + 1]
         /\ extractor' = [extractor EXCEPT ![nid[p]] = t]
         /\ pc' = [pc EXCEPT ![t] = pcNext]
         /\ UNCHANGED <<variant, queueVars, released, exited, mutexVars, alloc, next,
                        next_count, internal_count, hwm, nid,
                        stackVars, counterVars, hazardVars, new_node, old_head,
                        old_count, ptr, nxt, nxt_count, temp, nodes, last, scan,
                        ret, fault, pushes, futile, pops, abs_stack, lin, unlinks, unlinker,
                        frees, popped, started, solo, old_id>>

CounterPopSwap(t) ==
    /\ pc[t] = "cp_swap"
    /\ SwapData(t, old_head[t], "tr_check")

\* ------------------------------------------------------------- try_reclaim
\* A try_reclaim that takes the sole-popper branch whatever the counter says.
SoleThreadInPop_Always == TRUE

\* line 48: if (threads_in_pop == 1).
SoleThreadInPop == threads_in_pop = 1

TryReclaim(t) ==
    /\ pc[t] = "tr_check"
    /\ pc' = [pc EXCEPT ![t] = IF SoleThreadInPop THEN "tr_xchg" ELSE "tr_c1_load"]
    /\ UNCHANGED <<variant, queueVars, released, exited, mutexVars, heapVars, stackVars,
                   counterVars, hazardVars,
                   localVars, ret, fault, histVars>>

\* A try_reclaim that reads to_be_deleted without detaching the list.
TryReclaimExchange_Load(t) ==
    /\ pc[t] = "tr_xchg"
    /\ nodes' = [nodes EXCEPT ![t] = to_be_deleted]
    /\ pc' = [pc EXCEPT ![t] = "tr_dec"]
    /\ UNCHANGED <<variant, queueVars, released, exited, mutexVars, heapVars, stackVars,
                   counterVars,
                   hazardVars, new_node, old_head, old_count, ptr, nxt, nxt_count,
                   temp, last, scan, res, ret, fault, histVars>>

\* line 50: nodes_to_delete = to_be_deleted.exchange(nullptr).
TryReclaimExchange(t) ==
    /\ pc[t] = "tr_xchg"
    /\ nodes' = [nodes EXCEPT ![t] = to_be_deleted]
    /\ to_be_deleted' = Null
    /\ pc' = [pc EXCEPT ![t] = "tr_dec"]
    /\ UNCHANGED <<variant, queueVars, released, exited, mutexVars, heapVars, stackVars,
                   threads_in_pop, hazardVars,
                   new_node, old_head, old_count, ptr, nxt, nxt_count, temp,
                   last, scan, res, ret, fault, histVars>>

\* A try_reclaim that deletes the nodes it took whatever the decrement gave.
MayDeleteClaimed_Always(count) == TRUE

\* line 52: if (!--threads_in_pop) delete_nodes(..) else if (nodes_to_delete)
\* chain_pending_nodes(..); chain_pending_nodes(nodes) starts with last = nodes.
MayDeleteClaimed(count) == count = 0

TryReclaimDecrement(t) ==
    /\ pc[t] = "tr_dec"
    /\ threads_in_pop' = threads_in_pop - 1
    /\ IF MayDeleteClaimed(threads_in_pop - 1)
       THEN /\ pc' = [pc EXCEPT ![t] = "tr_delnodes"]
            /\ UNCHANGED last
       ELSE IF nodes[t] # Null
            THEN /\ pc' = [pc EXCEPT ![t] = "tr_walk"]
                 /\ last' = [last EXCEPT ![t] = nodes[t]]
            ELSE /\ pc' = [pc EXCEPT ![t] = "tr_delhead"]
                 /\ UNCHANGED last
    /\ UNCHANGED <<variant, queueVars, released, exited, mutexVars, heapVars, stackVars,
                   to_be_deleted, hazardVars,
                   new_node, old_head, old_count, ptr, nxt, nxt_count, temp,
                   nodes, scan, res, ret, fault, histVars>>

\* delete_nodes, lines 36-42: one node per step.
DeleteNodes(t) ==
    /\ pc[t] = "tr_delnodes"
    /\ IF nodes[t] = Null
       THEN /\ pc' = [pc EXCEPT ![t] = "tr_delhead"]
            /\ UNCHANGED <<variant, queueVars, released, exited, mutexVars, heapVars,
                           stackVars, counterVars, hazardVars,
                           localVars, ret, fault, histVars>>
       ELSE IF ~alloc[nodes[t]]
            THEN Crash("use_after_free")
            ELSE /\ nodes' = [nodes EXCEPT ![t] = next[nodes[t]]]
                 /\ DeleteNode(nodes[t])
                 /\ UNCHANGED <<variant, queueVars, released, exited, mutexVars,
                                stackVars, counterVars, hazardVars, pc,
                                new_node, old_head, old_count, ptr, nxt, nxt_count,
                                temp, last, scan, res, ret, fault, pushes, futile, pops,
                                abs_stack, lin, unlinks, unlinker, extracts,
                                extractor, popped, started, solo, old_id>>

\* chain_pending_nodes(nodes), lines 70-75: follow next to the last node.
ChainPendingNodesWalk(t) ==
    /\ pc[t] = "tr_walk"
    /\ IF ~alloc[last[t]]
       THEN Crash("use_after_free")
       ELSE /\ IF next[last[t]] # Null
               THEN /\ last' = [last EXCEPT ![t] = next[last[t]]]
                    /\ UNCHANGED pc
               ELSE /\ pc' = [pc EXCEPT ![t] = "tr_cn_load"]
                    /\ UNCHANGED last
            /\ UNCHANGED <<variant, queueVars, released, exited, mutexVars, heapVars,
                           stackVars, counterVars, hazardVars,
                           new_node, old_head, old_count, ptr, nxt, nxt_count,
                           temp, nodes, scan, res, ret, fault, histVars>>

\* chain_pending_nodes(first, last), line 79: last->next = to_be_deleted.
ChainLoad(t, l, pcNext) ==
    IF l = Null
    THEN Crash("null_dereference")
    ELSE IF ~alloc[l]
    THEN Crash("use_after_free")
    ELSE /\ next' = [next EXCEPT ![l] = to_be_deleted]
         /\ pc' = [pc EXCEPT ![t] = pcNext]
         /\ UNCHANGED <<variant, queueVars, released, exited, mutexVars, alloc, data,
                        next_count, internal_count, hwm, nid,
                        stackVars, counterVars, hazardVars, localVars, ret, fault,
                        histVars>>

\* A chaining that goes on without having put the nodes on the list.
ChainCas_Dropped(t, f, l, pcNext) ==
    /\ pc' = [pc EXCEPT ![t] = pcNext]
    /\ UNCHANGED <<variant, queueVars, released, exited, mutexVars, heapVars, stackVars,
                   counterVars,
                   hazardVars, localVars, ret, fault, histVars>>

\* A chaining that stores first in to_be_deleted without comparing.
ChainCasSucceeds_Always(l) == TRUE

\* line 80: compare_exchange_weak compares to_be_deleted with last->next.
ChainCasSucceeds(l) == to_be_deleted = next[l]

\* line 80: to_be_deleted.compare_exchange_weak(last->next, first), once.
ChainCas(t, f, l, pcNext) ==
    IF ~alloc[l]
    THEN Crash("use_after_free")
    ELSE /\ IF ChainCasSucceeds(l)
            THEN /\ to_be_deleted' = f
                 /\ pc' = [pc EXCEPT ![t] = pcNext]
                 /\ UNCHANGED next
            ELSE /\ next' = [next EXCEPT ![l] = to_be_deleted]
                 /\ UNCHANGED <<to_be_deleted, pc>>
         /\ UNCHANGED <<variant, queueVars, released, exited, mutexVars, alloc, data,
                        next_count, internal_count, hwm, nid,
                        stackVars, threads_in_pop, hazardVars, localVars, ret,
                        fault, histVars>>

\* line 59: chain_pending_nodes(nodes_to_delete).
ChainPendingNodesLoad(t) ==
    /\ pc[t] = "tr_cn_load"
    /\ ChainLoad(t, last[t], "tr_cn_cas")

ChainPendingNodesCas(t) ==
    /\ pc[t] = "tr_cn_cas"
    /\ ChainCas(t, nodes[t], last[t], "tr_delhead")

\* line 64: chain_pending_node(old_head), i.e. first = last = old_head.
ChainPendingNodeLoad(t) ==
    /\ pc[t] = "tr_c1_load"
    /\ ChainLoad(t, old_head[t], "tr_c1_cas")

ChainPendingNodeCas(t) ==
    /\ pc[t] = "tr_c1_cas"
    /\ ChainCas(t, old_head[t], old_head[t], "tr_dec2")

\* delete p, then return r (delete of a null pointer does nothing).
DeleteAndReturn(t, p, r) ==
    IF p # Null /\ ~alloc[p]
    THEN Crash("double_free")
    ELSE /\ IF p = Null
            THEN UNCHANGED <<heapVars, frees>>
            ELSE DeleteNode(p)
         /\ Return(t, r)
         /\ UNCHANGED <<variant, queueVars, released, exited, mutexVars, stackVars,
                        counterVars, hazardVars, fault, pushes, futile, pops,
                        abs_stack, lin, unlinks, unlinker, extracts, extractor,
                        started, solo>>

\* line 61: delete old_head; back in pop, line 122: return res.
TryReclaimDeleteHead(t) ==
    /\ pc[t] = "tr_delhead"
    /\ DeleteAndReturn(t, old_head[t], res[t])

\* line 65: --threads_in_pop; back in pop, line 122: return res.
TryReclaimLeave(t) ==
    /\ pc[t] = "tr_dec2"
    /\ threads_in_pop' = threads_in_pop - 1
    /\ Return(t, res[t])
    /\ UNCHANGED <<variant, queueVars, released, exited, mutexVars, heapVars, stackVars,
                   to_be_deleted, hazardVars, fault,
                   pushes, futile, pops, abs_stack, lin, unlinks, unlinker, extracts, extractor,
                   frees, started, solo>>

NextCounter ==
    \E t \in Threads :
        \/ Push(t) \/ PushLoad(t) \/ PushCas(t)
        \/ CounterPop(t) \/ CounterPopLoad(t) \/ CounterPopNext(t)
        \/ CounterPopCas(t) \/ CounterPopSwap(t)
        \/ TryReclaim(t) \/ TryReclaimExchange(t) \/ TryReclaimDecrement(t)
        \/ DeleteNodes(t) \/ ChainPendingNodesWalk(t)
        \/ ChainPendingNodesLoad(t) \/ ChainPendingNodesCas(t)
        \/ ChainPendingNodeLoad(t) \/ ChainPendingNodeCas(t)
        \/ TryReclaimDeleteHead(t) \/ TryReclaimLeave(t)

\* ------------------------------------------------------------- hazard pointers
\* pop_using_hazard_pointers, line 132: get_hazard_pointer_for_current_thread().
\* The thread_local hp_owner is constructed on the thread's first call.
HazardPop(t) ==
    /\ variant = "hazard"
    /\ pc[t] = "idle"
    /\ t \notin exited
    /\ pops < MaxPop
    /\ pops' = pops + 1
    /\ pc' = [pc EXCEPT ![t] = IF hazard[t] = 0 THEN "hp_acquire" ELSE "hp_load"]
    /\ ret' = [ret EXCEPT ![t] = NoRet]
    /\ lin' = [lin EXCEPT ![t] = NoRet]
    /\ started' = started \cup {t}
    /\ solo' = IF Quiescent THEN solo + 1 ELSE 0
    /\ UNCHANGED <<variant, queueVars, released, exited, mutexVars, heapVars, stackVars,
                   counterVars, hazardVars,
                   localVars, fault, pushes, futile, abs_stack, unlinks, unlinker,
                   extracts, extractor, frees, popped, old_id>>

\* A compare_exchange that takes the entry whoever owns it.
SlotFree_Always(i) == TRUE

\* lines 27-29: the compare_exchange_strong on entry i's id succeeds when the
\* id is the default-constructed one.
SlotFree(i) == hp_id[i] = NoThread

\* A constructor that gives up after the first entry it fails to take.
ScanEnds_AfterFirst(i) == TRUE

\* line 26: the loop ends after the last entry, i < max_hazard_pointers.
ScanEnds(i) == ~(i < HazardSlots)

\* hp_owner::hp_owner, lines 26-37: one compare_exchange_strong on an entry's
\* id per step; scan[t] entries have been tried.  With no entry left the
\* constructor throws and the exception leaves pop.
HpOwner(t) ==
    /\ pc[t] = "hp_acquire"
    /\ LET i == scan[t] + 1 IN
        IF SlotFree(i)
        THEN /\ hp_id' = [hp_id EXCEPT ![i] = t]
             /\ hazard' = [hazard EXCEPT ![t] = i]
             /\ scan' = [scan EXCEPT ![t] = 0]
             /\ pc' = [pc EXCEPT ![t] = "hp_load"]
             /\ UNCHANGED <<hp_pointer, nodes_to_reclaim, reclaim_next, new_node,
                            old_head, old_count, ptr, nxt, nxt_count, temp, nodes,
                            last, res, ret, popped, old_id>>
        ELSE IF ~ScanEnds(i)
        THEN /\ scan' = [scan EXCEPT ![t] = i]
             /\ UNCHANGED <<hazardVars, pc, new_node, old_head, old_count, ptr,
                            nxt, nxt_count, temp, nodes, last, res, ret, popped,
                            old_id>>
        ELSE /\ Return(t, ResourceError)
             /\ UNCHANGED hazardVars
    /\ UNCHANGED <<variant, queueVars, released, exited, mutexVars, heapVars, stackVars,
                   counterVars, fault, pushes, futile, pops,
                   abs_stack, lin, unlinks, unlinker, extracts, extractor, frees,
                   started, solo>>

\* A destructor that leaves the entry's id as it is.
ReleasedId_Kept(t) == t

\* hp_owner::~hp_owner, line 46: the id stored is the default-constructed
\* std::thread::id, the value SlotFree compares with.
ReleasedId(t) == NoThread

\* The thread ends between two calls, and the thread_local hp_owner of
\* get_hazard_pointer_for_current_thread (line 64), if it was constructed, is
\* destroyed.  hp_owner::~hp_owner, line 45: hp->pointer.store(nullptr).
ThreadExit(t) ==
    /\ variant = "hazard"
    /\ pc[t] = "idle"
    /\ t \notin exited
    /\ hazard[t] # 0
    /\ exited' = exited \cup {t}
    /\ hp_pointer' = [hp_pointer EXCEPT ![hazard[t]] = Null]
    /\ pc' = [pc EXCEPT ![t] = "hp_release"]
    /\ UNCHANGED <<variant, queueVars, released, mutexVars, heapVars, stackVars,
                   counterVars, hp_id,
                   nodes_to_reclaim, reclaim_next, hazard, localVars, ret, fault,
                   histVars>>

\* hp_owner::~hp_owner, line 46: hp->id.store(std::thread::id()); the
\* thread_local object is gone.
HpOwnerRelease(t) ==
    /\ pc[t] = "hp_release"
    /\ hp_id' = [hp_id EXCEPT ![hazard[t]] = ReleasedId(t)]
    /\ hazard' = [hazard EXCEPT ![t] = 0]
    /\ pc' = [pc EXCEPT ![t] = "idle"]
    /\ UNCHANGED <<variant, queueVars, released, exited, mutexVars, heapVars, stackVars,
                   counterVars,
                   hp_pointer, nodes_to_reclaim, reclaim_next, localVars, ret, fault,
                   histVars>>

\* line 133: old_head = head.load().
HazardPopLoad(t) ==
    /\ pc[t] = "hp_load"
    /\ old_head' = [old_head EXCEPT ![t] = head]
    /\ pc' = [pc EXCEPT ![t] = "hp_publish"]
    /\ UNCHANGED <<variant, queueVars, released, exited, mutexVars, heapVars, stackVars,
                   counterVars, hazardVars,
                   new_node, old_count, ptr, nxt, nxt_count, temp, nodes, last,
                   scan, res, ret, fault, histVars>>

\* A pop that announces nothing: its hazard pointer stays null.
Published_Nothing(t) == Null

\* line 142: the address hp.store(old_head) puts in t's hazard pointer.
Published(t) == old_head[t]

\* lines 141-142: temp = old_head; hp.store(old_head).
HazardPopPublish(t) ==
    /\ pc[t] = "hp_publish"
    /\ temp' = [temp EXCEPT ![t] = old_head[t]]
    /\ hp_pointer' = [hp_pointer EXCEPT ![hazard[t]] = Published(t)]
    /\ pc' = [pc EXCEPT ![t] = "hp_reread"]
    /\ UNCHANGED <<variant, queueVars, released, exited, mutexVars, heapVars, stackVars,
                   counterVars, hp_id,
                   nodes_to_reclaim, reclaim_next, hazard, new_node, old_head,
                   old_count, ptr, nxt, nxt_count, nodes, last, scan, res, ret,
                   fault, histVars>>

\* A pop that does not compare the re-read head with the published address.
Confirmed_Unchecked(t, h) == TRUE

\* lines 143-145: old_head = head.load(); while (old_head != temp); then the
\* outer condition's old_head && ...
Confirmed(t, h) == h = temp[t]

HazardPopReread(t) ==
    /\ pc[t] = "hp_reread"
    /\ old_head' = [old_head EXCEPT ![t] = head]
    /\ old_id' = [old_id EXCEPT ![t] = IF head = Null THEN 0 ELSE nid[head]]
    /\ IF ~Confirmed(t, head)
       THEN /\ pc' = [pc EXCEPT ![t] = "hp_publish"]
            /\ UNCHANGED lin
       ELSE IF head = Null
       THEN /\ pc' = [pc EXCEPT ![t] = "hp_clear"]
            /\ lin' = [lin EXCEPT ![t] = AbsTop]
       ELSE /\ pc' = [pc EXCEPT ![t] = "hp_next"]
            /\ UNCHANGED lin
    /\ UNCHANGED <<variant, queueVars, released, exited, mutexVars, heapVars, stackVars,
                   counterVars, hazardVars,
                   new_node, old_count, ptr, nxt, nxt_count, temp, nodes, last,
                   scan, res, ret, fault, pushes, futile, pops, abs_stack, unlinks, unlinker,
                   extracts, extractor, frees, popped, started, solo>>

\* line 149: the read of old_head->next for the CAS.
HazardPopNext(t) ==
    /\ pc[t] = "hp_next"
    /\ IF ~alloc[old_head[t]]
       THEN Crash("use_after_free")
       ELSE /\ nxt' = [nxt EXCEPT ![t] = next[old_head[t]]]
            /\ pc' = [pc EXCEPT ![t] = "hp_cas"]
            /\ UNCHANGED <<variant, queueVars, released, exited, mutexVars, heapVars,
                           stackVars, counterVars, hazardVars,
                           new_node, old_head, old_count, ptr, nxt_count, temp,
                           nodes, last, scan, res, ret, fault, histVars>>

\* A pop that retries the CAS at once with the refreshed old_head.
AfterFailedUnlink_RetryCas == "hp_next"

\* lines 135-149: the CAS is the condition of the outer do-while; when it
\* fails the outer loop's body, the publishing loop of lines 139-145, runs again.
AfterFailedUnlink == "hp_publish"

\* line 149: head.compare_exchange_strong(old_head, old_head->next).
HazardPopCas(t) ==
    /\ pc[t] = "hp_cas"
    /\ UnlinkCas(t, "hp_clear", "hp_publish", AfterFailedUnlink)
    /\ UNCHANGED <<variant, queueVars, released, exited, mutexVars, heapVars,
                   head_count, counterVars, hazardVars,
                   new_node, old_count, ptr, nxt, nxt_count, temp, nodes, last,
                   scan, res, ret, fault, pushes, pops, extracts, extractor, frees,
                   popped, started, solo>>

\* What the caller of pop_using_hazard_pointers receives: the function ends
\* (line 163) without a return statement, so res is dropped and the value the
\* caller finds is indeterminate.  Indeterminate stands for every bit pattern
\* it may hold: nothing can be relied on about it.
FlowsOffTheEnd(r) == {Indeterminate}

\* A pop that leaves the address it protected in its hazard pointer.
ClearedPointer_Kept(p) == p

\* line 151: the value hp.store(nullptr) leaves in the entry that held p.
ClearedPointer(p) == Null

\* line 151: hp.store(nullptr); line 153: if (old_head).
HazardPopClear(t) ==
    /\ pc[t] = "hp_clear"
    /\ hp_pointer' = [hp_pointer EXCEPT ![hazard[t]] = ClearedPointer(@)]
    /\ IF old_head[t] # Null
       THEN /\ pc' = [pc EXCEPT ![t] = "hp_swap"]
            /\ UNCHANGED <<localVars, ret, popped, old_id>>
       ELSE \E r \in FlowsOffTheEnd(res[t]) : Return(t, r)
    /\ UNCHANGED <<variant, queueVars, released, exited, mutexVars, heapVars, stackVars,
                   counterVars, hp_id,
                   nodes_to_reclaim, reclaim_next, hazard, fault, pushes, futile, pops,
                   abs_stack, lin, unlinks, unlinker, extracts, extractor, frees,
                   started, solo>>

\* line 154: res.swap(old_head->data).
HazardPopSwap(t) ==
    /\ pc[t] = "hp_swap"
    /\ SwapData(t, old_head[t], "hp_check")

\* A scan that finds no entry holding the address, whatever the table says.
EntryHolds_Never(i, p) == FALSE

\* line 70: hazard_pointers[i].pointer.load() == p.
EntryHolds(i, p) == hp_pointer[i] = p

\* outstanding_hazard_pointers_for(p), lines 68-75: one entry's pointer is
\* loaded per step; scan[t] entries have been looked at.
HazardScan(t, p, pcFound, pcNone) ==
    LET i == scan[t] + 1 IN
    /\ IF EntryHolds(i, p)
       THEN /\ pc' = [pc EXCEPT ![t] = pcFound]
            /\ scan' = [scan EXCEPT ![t] = 0]
       ELSE IF i < HazardSlots
       THEN /\ scan' = [scan EXCEPT ![t] = i]
            /\ UNCHANGED pc
       ELSE /\ pc' = [pc EXCEPT ![t] = pcNone]
            /\ scan' = [scan EXCEPT ![t] = 0]
    /\ UNCHANGED <<variant, queueVars, released, exited, mutexVars, heapVars, stackVars,
                   counterVars, hazardVars,
                   new_node, old_head, old_count, ptr, nxt, nxt_count, temp,
                   nodes, last, res, ret, fault, histVars>>

\* line 156: if (outstanding_hazard_pointers_for(old_head)).
HazardPopCheck(t) ==
    /\ pc[t] = "hp_check"
    /\ HazardScan(t, old_head[t], "hp_later", "hp_delete")

\* add_to_reclaim_list(node), line 102: node->next = nodes_to_reclaim.load().
AddLoad(t, n, pcNext) ==
    /\ reclaim_next' = [reclaim_next EXCEPT ![n] = nodes_to_reclaim]
    /\ pc' = [pc EXCEPT ![t] = pcNext]
    /\ UNCHANGED <<variant, queueVars, released, exited, mutexVars, heapVars, stackVars,
                   counterVars, hp_id, hp_pointer,
                   nodes_to_reclaim, hazard, localVars, ret, fault, histVars>>

\* line 157: reclaim_later(old_head), i.e. a new data_to_reclaim holding
\* old_head, handed to add_to_reclaim_list.
ReclaimLater(t) ==
    /\ pc[t] = "hp_later"
    /\ AddLoad(t, old_head[t], "hp_later_cas")

\* line 103: nodes_to_reclaim.compare_exchange_weak(node->next, node), once.
AddCasSucceeds(n) == nodes_to_reclaim = reclaim_next[n]

ReclaimLaterCas(t) ==
    /\ pc[t] = "hp_later_cas"
    /\ IF AddCasSucceeds(old_head[t])
       THEN /\ nodes_to_reclaim' = old_head[t]
            /\ pc' = [pc EXCEPT ![t] = "hp_sweep"]
            /\ UNCHANGED reclaim_next
       ELSE /\ reclaim_next' = [reclaim_next EXCEPT ![old_head[t]] = nodes_to_reclaim]
            /\ UNCHANGED <<nodes_to_reclaim, pc>>
    /\ UNCHANGED <<variant, queueVars, released, exited, mutexVars, heapVars, stackVars,
                   counterVars, hp_id, hp_pointer,
                   hazard, localVars, ret, fault, histVars>>

\* line 159: delete old_head.
HazardPopDelete(t) ==
    /\ pc[t] = "hp_delete"
    /\ IF ~alloc[old_head[t]]
       THEN Crash("double_free")
       ELSE /\ DeleteNode(old_head[t])
            /\ pc' = [pc EXCEPT ![t] = "hp_sweep"]
            /\ UNCHANGED <<variant, queueVars, released, exited, mutexVars, stackVars,
                           counterVars, hazardVars, localVars,
                           ret, fault, pushes, futile, pops, abs_stack, lin, unlinks, unlinker,
                           extracts, extractor, popped, started, solo, old_id>>

\* A sweep that reads the list of nodes to reclaim without detaching it.
DeleteNodesWithNoHazards_Load(t) ==
    /\ pc[t] = "hp_sweep"
    /\ nodes' = [nodes EXCEPT ![t] = nodes_to_reclaim]
    /\ nodes_to_reclaim' = nodes_to_reclaim
    /\ pc' = [pc EXCEPT ![t] = "hp_sw_loop"]
    /\ UNCHANGED <<variant, queueVars, released, exited, mutexVars, heapVars, stackVars,
                   counterVars, hp_id, hp_pointer,
                   reclaim_next, hazard, new_node, old_head, old_count, ptr, nxt,
                   nxt_count, temp, last, scan, res, ret, fault, histVars>>

\* delete_nodes_with_no_hazards, line 114:
\* current = nodes_to_reclaim.exchange(nullptr).
DeleteNodesWithNoHazards(t) ==
    /\ pc[t] = "hp_sweep"
    /\ nodes' = [nodes EXCEPT ![t] = nodes_to_reclaim]
    /\ nodes_to_reclaim' = Null
    /\ pc' = [pc EXCEPT ![t] = "hp_sw_loop"]
    /\ UNCHANGED <<variant, queueVars, released, exited, mutexVars, heapVars, stackVars,
                   counterVars, hp_id, hp_pointer,
                   reclaim_next, hazard, new_node, old_head, old_count, ptr, nxt,
                   nxt_count, temp, last, scan, res, ret, fault, histVars>>

\* lines 115-116: while (current) { next = current->next; ... }; after the
\* loop pop_using_hazard_pointers ends.
SweepLoop(t) ==
    /\ pc[t] = "hp_sw_loop"
    /\ IF nodes[t] = Null
       THEN /\ \E r \in FlowsOffTheEnd(res[t]) : Return(t, r)
            /\ UNCHANGED <<variant, queueVars, released, exited, mutexVars, heapVars,
                           stackVars, counterVars, hazardVars,
                           fault, pushes, futile, pops, abs_stack, lin, unlinks, unlinker,
                           extracts, extractor, frees, started, solo>>
       ELSE /\ nxt' = [nxt EXCEPT ![t] = reclaim_next[nodes[t]]]
            /\ pc' = [pc EXCEPT ![t] = "hp_sw_scan"]
            /\ UNCHANGED <<variant, queueVars, released, exited, mutexVars, heapVars,
                           stackVars, counterVars, hazardVars,
                           new_node, old_head, old_count, ptr, nxt_count, temp,
                           nodes, last, scan, res, ret, fault, histVars>>

\* line 117: if (!outstanding_hazard_pointers_for(current->data)).
SweepCheck(t) ==
    /\ pc[t] = "hp_sw_scan"
    /\ HazardScan(t, nodes[t], "hp_sw_add", "hp_sw_delete")

\* A sweep that reads current->next only when it moves on, after the entry
\* may have been put back on the shared list.
NextEntry_ReadLate(t) == reclaim_next[nodes[t]]

\* lines 116 and 122: current = next, the value current->next had before the
\* entry was freed or put back.
NextEntry(t) == nxt[t]

\* line 118: delete current (its destructor deletes the node); line 122:
\* current = next.
SweepDelete(t) ==
    /\ pc[t] = "hp_sw_delete"
    /\ IF ~alloc[nodes[t]]
       THEN Crash("double_free")
       ELSE /\ DeleteNode(nodes[t])
            /\ reclaim_next' = [reclaim_next EXCEPT ![nodes[t]] = Null]
            /\ nodes' = [nodes EXCEPT ![t] = NextEntry(t)]
            /\ pc' = [pc EXCEPT ![t] = "hp_sw_loop"]
            /\ UNCHANGED <<variant, queueVars, released, exited, mutexVars, stackVars,
                           counterVars, hp_id, hp_pointer,
                           nodes_to_reclaim, hazard, new_node, old_head, old_count,
                           ptr, nxt, nxt_count, temp, last, scan, res, ret, fault,
                           pushes, futile, pops, abs_stack, lin, unlinks, unlinker, extracts,
                           extractor, popped, started, solo, old_id>>

\* line 120: add_to_reclaim_list(current).
SweepAdd(t) ==
    /\ pc[t] = "hp_sw_add"
    /\ AddLoad(t, nodes[t], "hp_sw_add_cas")

\* line 103 for the entry put back; line 122: current = next.
SweepAddCas(t) ==
    /\ pc[t] = "hp_sw_add_cas"
    /\ IF AddCasSucceeds(nodes[t])
       THEN /\ nodes_to_reclaim' = nodes[t]
            /\ nodes' = [nodes EXCEPT ![t] = NextEntry(t)]
            /\ pc' = [pc EXCEPT ![t] = "hp_sw_loop"]
            /\ UNCHANGED reclaim_next
       ELSE /\ reclaim_next' = [reclaim_next EXCEPT ![nodes[t]] = nodes_to_reclaim]
            /\ UNCHANGED <<nodes_to_reclaim, nodes, pc>>
    /\ UNCHANGED <<variant, queueVars, released, exited, mutexVars, heapVars, stackVars,
                   counterVars, hp_id, hp_pointer,
                   hazard, new_node, old_head, old_count, ptr, nxt, nxt_count,
                   temp, last, scan, res, ret, fault, histVars>>

NextHazard ==
    \E t \in Threads :
        \/ HazardPop(t) \/ HpOwner(t) \/ HazardPopLoad(t) \/ HazardPopPublish(t)
        \/ HazardPopReread(t) \/ HazardPopNext(t) \/ HazardPopCas(t)
        \/ HazardPopClear(t) \/ HazardPopSwap(t) \/ HazardPopCheck(t)
        \/ ReclaimLater(t) \/ ReclaimLaterCas(t) \/ HazardPopDelete(t)
        \/ DeleteNodesWithNoHazards(t) \/ SweepLoop(t) \/ SweepCheck(t)
        \/ SweepDelete(t) \/ SweepAdd(t) \/ SweepAddCas(t)
        \/ ThreadExit(t) \/ HpOwnerRelease(t)

\* ------------------------------------------------------------- split count
\* refcount::lock_free_stack::push, lines 60-62: new node, external_count 1.
SplitPush(t) ==
    /\ variant = "split"
    /\ pc[t] = "idle"
    /\ pushes < MaxPush
    /\ \E a \in AllocChoices :
        /\ NewNode(a)
        /\ new_node' = [new_node EXCEPT ![t] = a]
    /\ pc' = [pc EXCEPT ![t] = "sp_push_load"]
    /\ ret' = [ret EXCEPT ![t] = NoRet]
    /\ lin' = [lin EXCEPT ![t] = NoRet]
    /\ started' = started \cup {t}
    /\ solo' = 0
    /\ UNCHANGED <<variant, queueVars, released, exited, mutexVars, next, next_count,
                   stackVars, counterVars, hazardVars,
                   old_head, old_count, ptr, nxt, nxt_count, temp, nodes, last,
                   scan, res, fault, futile, pops, abs_stack, unlinks, unlinker, extracts,
                   extractor, frees, popped, old_id>>

\* line 63: new_node.ptr->next = head.load().
SplitPushLoad(t) ==
    /\ pc[t] = "sp_push_load"
    /\ next' = [next EXCEPT ![new_node[t]] = head]
    /\ next_count' = [next_count EXCEPT ![new_node[t]] = head_count]
    /\ pc' = [pc EXCEPT ![t] = "sp_push_cas"]
    /\ UNCHANGED <<variant, queueVars, released, exited, mutexVars, alloc, data,
                   internal_count, hwm, nid, stackVars,
                   counterVars, hazardVars, localVars, ret, fault, histVars>>

\* A compare_exchange that looks at the pointer only.
HeadIs_PointerOnly(p, c) == head = p

\* A compare_exchange on the counted head compares pointer and count.
HeadIs(p, c) == head = p /\ head_count = c

\* line 64: head.compare_exchange_weak(new_node.ptr->next, new_node).
SplitPushCas(t) ==
    /\ pc[t] = "sp_push_cas"
    /\ IF HeadIs(next[new_node[t]], next_count[new_node[t]])
       THEN /\ head' = new_node[t]
            /\ head_count' = 1
            /\ abs_stack' = <<data[new_node[t]]>> \o abs_stack
            /\ Return(t, NoRet)
            /\ futile' = 0
            /\ UNCHANGED heapVars
       ELSE /\ next' = [next EXCEPT ![new_node[t]] = head]
            /\ futile' = futile + 1
            /\ next_count' = [next_count EXCEPT ![new_node[t]] = head_count]
            /\ UNCHANGED <<alloc, data, internal_count, hwm, nid, stackVars, pc,
                           localVars, ret, abs_stack, popped, old_id>>
    /\ UNCHANGED <<variant, queueVars, released, exited, mutexVars, counterVars,
                   hazardVars, fault, pushes, pops, lin,
                   unlinks, unlinker, extracts, extractor, frees, started, solo>>

\* refcount::lock_free_stack::pop, line 84: old_head = head.load().
SplitPop(t) ==
    /\ variant = "split"
    /\ pc[t] = "idle"
    /\ pops < MaxPop
    /\ pops' = pops + 1
    /\ old_head' = [old_head EXCEPT ![t] = head]
    /\ old_count' = [old_count EXCEPT ![t] = head_count]
    /\ pc' = [pc EXCEPT ![t] = "sp_increase"]
    /\ ret' = [ret EXCEPT ![t] = NoRet]
    /\ lin' = [lin EXCEPT ![t] = NoRet]
    /\ started' = started \cup {t}
    /\ solo' = IF Quiescent THEN solo + 1 ELSE 0
    /\ UNCHANGED <<variant, queueVars, released, exited, mutexVars, heapVars, stackVars,
                   counterVars, hazardVars,
                   new_node, ptr, nxt, nxt_count, temp, nodes, last, scan, res,
                   fault, pushes, futile, abs_stack, unlinks, unlinker, extracts,
                   extractor, frees, popped, old_id>>

\* An increase_head_count that installs the counter as it found it.
NewCounter_Unchanged(external_count) == external_count

\* lines 74-75: new_counter = old_counter; ++new_counter.external_count.
NewCounter(external_count) == external_count + 1

\* increase_head_count, lines 73-79, one compare_exchange_strong per step; on
\* success pop goes on with lines 91-94: ptr = old_head.ptr; if (!ptr) return.
\* The count is an int that only grows while poppers keep retrying; the model
\* follows it up to MaxExternalCount.
IncreaseHeadCount(t) ==
    /\ pc[t] = "sp_increase"
    /\ HeadIs(old_head[t], old_count[t]) => old_count[t] < MaxExternalCount
    /\ IF HeadIs(old_head[t], old_count[t])
       THEN /\ head_count' = NewCounter(old_count[t])
            /\ IF old_head[t] = Null
               THEN /\ lin' = [lin EXCEPT ![t] = AbsTop]
                    /\ Return(t, Empty)
                    /\ futile' = 0
               ELSE /\ UNCHANGED futile
                    /\ old_count' = [old_count EXCEPT ![t] = NewCounter(old_count[t])]
                    /\ ptr' = [ptr EXCEPT ![t] = old_head[t]]
                    /\ old_id' = [old_id EXCEPT ![t] = nid[old_head[t]]]
                    /\ pc' = [pc EXCEPT ![t] = "sp_next"]
                    /\ UNCHANGED <<new_node, old_head, nxt, nxt_count, temp, nodes,
                                   last, scan, res, ret, popped, lin>>
            /\ UNCHANGED head
       ELSE /\ old_head' = [old_head EXCEPT ![t] = head]
            /\ old_count' = [old_count EXCEPT ![t] = head_count]
            /\ UNCHANGED <<stackVars, pc, new_node, ptr, nxt, nxt_count, temp,
                           nodes, last, scan, res, ret, popped, lin, old_id, futile>>
    /\ UNCHANGED <<variant, queueVars, released, exited, mutexVars, heapVars,
                   counterVars, hazardVars, fault, pushes,
                   pops, abs_stack, unlinks, unlinker, extracts, extractor, frees,
                   started, solo>>

\* A pop that takes the pointer of ptr->next with a count of 1, as push
\* gives a new node.
NextLink_CountReset(a) == <<next[a], 1>>

\* A pop that, unlinking the last node, installs a null head with count 0.
NextLink_NullFresh(a) == <<next[a], IF next[a] = Null THEN 0 ELSE next_count[a]>>

\* line 96: ptr->next, the counted_node_ptr stored in the node at a.
NextLink(a) == <<next[a], next_count[a]>>

\* line 96: the read of ptr->next for the CAS.
SplitPopNext(t) ==
    /\ pc[t] = "sp_next"
    /\ IF ~alloc[ptr[t]]
       THEN Crash("use_after_free")
       ELSE /\ nxt' = [nxt EXCEPT ![t] = NextLink(ptr[t])[1]]
            /\ nxt_count' = [nxt_count EXCEPT ![t] = NextLink(ptr[t])[2]]
            /\ pc' = [pc EXCEPT ![t] = "sp_cas"]
            /\ UNCHANGED <<variant, queueVars, released, exited, mutexVars, heapVars,
                           stackVars, counterVars, hazardVars,
                           new_node, old_head, old_count, ptr, temp, nodes, last,
                           scan, res, ret, fault, histVars>>

\* line 96: head.compare_exchange_strong(old_head, ptr->next); on failure
\* old_head holds the fresh head and the else branch (line 124) is taken.
SplitPopCas(t) ==
    /\ pc[t] = "sp_cas"
    /\ IF HeadIs(old_head[t], old_count[t])
       THEN /\ head' = nxt[t]
            /\ head_count' = nxt_count[t]
            /\ lin' = [lin EXCEPT ![t] = AbsTop]
            /\ abs_stack' = AbsPop
            /\ unlinks' = [unlinks EXCEPT ![old_id[t]] = @ + 1]
            /\ unlinker' = [unlinker EXCEPT ![old_id[t]] = t]
            /\ pc' = [pc EXCEPT ![t] = "sp_swap"]
            /\ futile' = 0
            /\ UNCHANGED <<old_head, old_count>>
       ELSE /\ old_head' = [old_head EXCEPT ![t] = head]
            /\ old_count' = [old_count EXCEPT ![t] = head_count]
            /\ pc' = [pc EXCEPT ![t] = "sp_release"]
            /\ futile' = futile + 1
            /\ UNCHANGED <<stackVars, lin, abs_stack, unlinks, unlinker>>
    /\ UNCHANGED <<variant, queueVars, released, exited, mutexVars, heapVars,
                   counterVars, hazardVars, new_node, ptr, nxt,
                   nxt_count, temp, nodes, last, scan, res, ret, fault, pushes,
                   pops, extracts, extractor, frees, popped, started, solo, old_id>>

\* line 101: res.swap(ptr->data).
SplitPopSwap(t) ==
    /\ pc[t] = "sp_swap"
    /\ SwapData(t, ptr[t], "sp_fold")

\* A winner that gives back the reference of the list but not its own.
CountIncrease_ListOnly(external_count) == external_count - 1

\* line 105: count_increase = old_head.external_count - 2.
CountIncrease(external_count) == external_count - 2

\* A winner that frees its node without looking at the internal count.
NoReferenceLeft_Always(previous, count_increase) == TRUE

\* lines 110-111: fetch_add(count_increase) == -count_increase, on the value
\* internal_count held before the addition.
NoReferenceLeft(previous, count_increase) == previous = -count_increase

\* lines 110-111: ptr->internal_count.fetch_add(count_increase) ==
\* -count_increase; otherwise line 116: return res.
SplitPopFold(t) ==
    /\ pc[t] = "sp_fold"
    /\ IF ~alloc[ptr[t]]
       THEN Crash("use_after_free")
       ELSE LET count_increase == CountIncrease(old_count[t]) IN
            /\ internal_count' = [internal_count EXCEPT ![ptr[t]] = @ + count_increase]
            /\ IF NoReferenceLeft(internal_count[ptr[t]], count_increase)
               THEN /\ pc' = [pc EXCEPT ![t] = "sp_delete"]
                    /\ UNCHANGED <<localVars, ret, popped, old_id>>
               ELSE Return(t, res[t])
            /\ UNCHANGED <<variant, queueVars, released, exited, mutexVars, alloc, data,
                           next, next_count, hwm, nid,
                           stackVars, counterVars, hazardVars, fault, pushes, futile, pops,
                           abs_stack, lin, unlinks, unlinker, extracts, extractor,
                           frees, started, solo>>

\* line 112: delete ptr; line 116: return res.
SplitPopDelete(t) ==
    /\ pc[t] = "sp_delete"
    /\ DeleteAndReturn(t, ptr[t], res[t])

\* A loser that deletes when it finds the count at zero before its decrement.
LastReference_FoundZero(previous) == previous = 0

\* line 124: ptr->internal_count.fetch_sub(1) == 1; otherwise round the loop.
LastReference(previous) == previous = 1

SplitPopRelease(t) ==
    /\ pc[t] = "sp_release"
    /\ IF ~alloc[ptr[t]]
       THEN Crash("use_after_free")
       ELSE /\ internal_count' = [internal_count EXCEPT ![ptr[t]] = @ - 1]
            /\ released' = [released EXCEPT ![t] = @ \cup {old_id[t]}]
            /\ IF LastReference(internal_count[ptr[t]])
               THEN /\ pc' = [pc EXCEPT ![t] = "sp_release_delete"]
                    /\ UNCHANGED <<ptr, old_id>>
               ELSE /\ pc' = [pc EXCEPT ![t] = "sp_increase"]
                    /\ ptr' = [ptr EXCEPT ![t] = Null]
                    /\ old_id' = [old_id EXCEPT ![t] = 0]
            /\ UNCHANGED <<variant, queueVars, exited, mutexVars, alloc, data, next,
                           next_count, hwm, nid,
                           stackVars, counterVars, hazardVars, new_node, old_head,
                           old_count, nxt, nxt_count, temp, nodes, last, scan, res,
                           ret, fault, pushes, futile, pops, abs_stack, lin, unlinks,
                           unlinker, extracts, extractor, frees, popped, started, solo>>

\* lines 125-126: ptr->internal_count.load(); delete ptr; then round the loop.
SplitPopReleaseDelete(t) ==
    /\ pc[t] = "sp_release_delete"
    /\ IF ~alloc[ptr[t]]
       THEN Crash("double_free")
       ELSE /\ DeleteNode(ptr[t])
            /\ pc' = [pc EXCEPT ![t] = "sp_increase"]
            /\ ptr' = [ptr EXCEPT ![t] = Null]
            /\ old_id' = [old_id EXCEPT ![t] = 0]
            /\ UNCHANGED <<variant, queueVars, released, exited, mutexVars, stackVars,
                           counterVars, hazardVars, new_node,
                           old_head, old_count, nxt, nxt_count, temp, nodes, last,
                           scan, res, ret, fault, pushes, futile, pops, abs_stack, lin,
                           unlinks, unlinker, extracts, extractor, popped, started, solo>>

NextSplit ==
    \E t \in Threads :
        \/ SplitPush(t) \/ SplitPushLoad(t) \/ SplitPushCas(t)
        \/ SplitPop(t) \/ IncreaseHeadCount(t) \/ SplitPopNext(t)
        \/ SplitPopCas(t) \/ SplitPopSwap(t) \/ SplitPopFold(t)
        \/ SplitPopDelete(t) \/ SplitPopRelease(t) \/ SplitPopReleaseDelete(t)

\* ------------------------------------------------------------- hierarchical mutex
\* src/chapter03/hierarchical_mutex.h.  Each thread may call lock, try_lock
\* and unlock on any mutex at any time it is not blocked.
stackModel == <<heapVars, stackVars, counterVars, hazardVars, localVars, histVars>>

\* A check that lets a thread lock a mutex of the value it already has.
CheckForHierarchyViolation_Equal(t, m) ==
    thisThreadHierarchyValue[t] < hierarchyValue[m]

\* lines 23-27: thisThreadHierarchyValue <= hierarchyValue throws.
CheckForHierarchyViolation(t, m) ==
    thisThreadHierarchyValue[t] <= hierarchyValue[m]

\* throw std::logic_error("Mutex hierarchy violated"): the call is over.
ThrowHierarchyViolation(t) ==
    /\ ret' = [ret EXCEPT ![t] = HierarchyError]
    /\ UNCHANGED <<variant, queueVars, exited, mutexVars, stackModel, pc, fault>>

\* internalMutex is taken (lines 46, 60); lines 29-32: UpdateHierarchyValue.
Acquire(t, m) ==
    /\ internalMutex' = [internalMutex EXCEPT ![m] = t]
    /\ previousHierarchyValue' =
           [previousHierarchyValue EXCEPT ![m] = thisThreadHierarchyValue[t]]
    /\ thisThreadHierarchyValue' =
           [thisThreadHierarchyValue EXCEPT ![t] = hierarchyValue[m]]
    /\ held' = [held EXCEPT ![t] = Append(@, m)]

\* lock(), line 45: the check; then the thread is at internalMutex.lock().
Lock(t, m) ==
    /\ variant = "mutex"
    /\ pc[t] = "idle"
    /\ IF CheckForHierarchyViolation(t, m)
       THEN ThrowHierarchyViolation(t)
       ELSE /\ pc' = [pc EXCEPT ![t] = "hm_lock"]
            /\ arg' = [arg EXCEPT ![t] = m]
            /\ ret' = [ret EXCEPT ![t] = NoRet]
            /\ UNCHANGED <<variant, queueVars, exited, hierarchyValue,
                           previousHierarchyValue,
                           thisThreadHierarchyValue, internalMutex, held,
                           stackModel, fault>>

\* lock(), lines 46-47: internalMutex.lock() returns once the mutex is free.
LockAcquire(t) ==
    /\ pc[t] = "hm_lock"
    /\ internalMutex[arg[t]] = NoThread
    /\ Acquire(t, arg[t])
    /\ pc' = [pc EXCEPT ![t] = "idle"]
    /\ arg' = [arg EXCEPT ![t] = NoMutex]
    /\ UNCHANGED <<variant, queueVars, exited, hierarchyValue, stackModel, ret, fault>>

\* try_lock(), lines 58-65.
TryLock(t, m) ==
    /\ variant = "mutex"
    /\ pc[t] = "idle"
    /\ IF CheckForHierarchyViolation(t, m)
       THEN ThrowHierarchyViolation(t)
       ELSE IF internalMutex[m] # NoThread
       THEN /\ ret' = [ret EXCEPT ![t] = ReturnedFalse]
            /\ UNCHANGED <<variant, queueVars, exited, mutexVars, stackModel, pc, fault>>
       ELSE /\ Acquire(t, m)
            /\ ret' = [ret EXCEPT ![t] = ReturnedTrue]
            /\ UNCHANGED <<variant, queueVars, exited, hierarchyValue, arg, stackModel,
                           pc, fault>>

\* unlock(), lines 50-56.  std::mutex::unlock by a thread that does not own
\* the mutex is undefined behaviour.
Unlock(t, m) ==
    /\ variant = "mutex"
    /\ pc[t] = "idle"
    /\ IF thisThreadHierarchyValue[t] # hierarchyValue[m]
       THEN ThrowHierarchyViolation(t)
       ELSE IF internalMutex[m] # t
       THEN Crash("unlock_not_owner")
       ELSE /\ thisThreadHierarchyValue' =
                   [thisThreadHierarchyValue EXCEPT ![t] = previousHierarchyValue[m]]
            /\ internalMutex' = [internalMutex EXCEPT ![m] = NoThread]
            /\ held' = [held EXCEPT ![t] = SelectSeq(@, LAMBDA h : h # m)]
            /\ ret' = [ret EXCEPT ![t] = NoRet]
            /\ UNCHANGED <<variant, queueVars, exited, hierarchyValue,
                           previousHierarchyValue, arg,
                           stackModel, pc, fault>>

NextMutex ==
    \E t \in Threads :
        \/ LockAcquire(t)
        \/ \E m \in Mutexes : Lock(t, m) \/ TryLock(t, m) \/ Unlock(t, m)

\* ------------------------------------------------------------- simple_thread_safe_queue
\* src/chapter06/simple_queue.h.  Each thread may call push and
\* wait_and_pop; std::mutex and std::condition_variable behave as the
\* standard says: wait(lock) unlocks the mutex and blocks in one atomic
\* step, notify_one unblocks one of the threads blocked at that moment, if
\* there is one, and is otherwise without effect; a woken thread locks the
\* mutex again before wait returns.  Wake-ups without a notification, which
\* the standard permits and promises to nobody, are left out.
QueueRest == <<variant, exited, mutexVars, stackModel, fault>>

\* push, lines 119-122: new_data and the new node p, outside any lock.
QueuePush(t) ==
    /\ variant = "queue"
    /\ pc[t] = "idle"
    /\ q_pushes < MaxPush
    /\ q_pushes' = q_pushes + 1
    /\ q_value' = [q_value EXCEPT ![t] = q_pushes + 1]
    /\ q_nodes' = q_nodes + 1
    /\ q_p' = [q_p EXCEPT ![t] = q_nodes + 1]
    /\ pc' = [pc EXCEPT ![t] = "q_push_lock"]
    /\ ret' = [ret EXCEPT ![t] = NoRet]
    /\ UNCHANGED <<QueueRest, q_head, q_tail, q_next, q_data, head_mutex, tail_mutex,
                   data_cond, q_seen, q_pops>>

\* line 126: std::lock_guard tail_lock(tail_mutex).
QueuePushLock(t) ==
    /\ pc[t] = "q_push_lock"
    /\ tail_mutex = NoThread
    /\ tail_mutex' = t
    /\ pc' = [pc EXCEPT ![t] = "q_push_link"]
    /\ UNCHANGED <<QueueRest, q_head, q_tail, q_next, q_data, q_nodes, head_mutex,
                   data_cond, q_p, q_value, q_seen, q_pushes, q_pops, ret>>

\* lines 127-130: tail->data = new_data; tail->next = std::move(p);
\* tail = new_tail.
QueuePushLink(t) ==
    /\ pc[t] = "q_push_link"
    /\ q_data' = [q_data EXCEPT ![q_tail] = q_value[t]]
    /\ q_next' = [q_next EXCEPT ![q_tail] = q_p[t]]
    /\ q_tail' = q_p[t]
    /\ pc' = [pc EXCEPT ![t] = "q_push_unlock"]
    /\ UNCHANGED <<QueueRest, q_head, q_nodes, head_mutex, tail_mutex, data_cond,
                   q_p, q_value, q_seen, q_pushes, q_pops, ret>>

\* line 131: the end of tail_lock's scope.
QueuePushUnlock(t) ==
    /\ pc[t] = "q_push_unlock"
    /\ tail_mutex' = NoThread
    /\ pc' = [pc EXCEPT ![t] = "q_notify"]
    /\ UNCHANGED <<QueueRest, q_head, q_tail, q_next, q_data, q_nodes, head_mutex,
                   data_cond, q_p, q_value, q_seen, q_pushes, q_pops, ret>>

\* line 133: data_cond.notify_one(), with no mutex held; push returns.
QueueNotifyOne(t) ==
    /\ pc[t] = "q_notify"
    /\ IF data_cond = {}
       THEN UNCHANGED data_cond
       ELSE \E w \in data_cond : data_cond' = data_cond \ {w}
    /\ pc' = [pc EXCEPT ![t] = "idle"]
    /\ q_p' = [q_p EXCEPT ![t] = Null]
    /\ q_value' = [q_value EXCEPT ![t] = Empty]
    /\ UNCHANGED <<QueueRest, q_head, q_tail, q_next, q_data, q_nodes, head_mutex,
                   tail_mutex, q_seen, q_pushes, q_pops, ret>>

\* wait_and_pop(), line 93, calls wait_pop_head(), line 58, which calls
\* wait_for_data().
QueueWaitAndPop(t) ==
    /\ variant = "queue"
    /\ pc[t] = "idle"
    /\ q_pops < MaxPop
    /\ q_pops' = q_pops + 1
    /\ pc' = [pc EXCEPT ![t] = "q_lock_head"]
    /\ ret' = [ret EXCEPT ![t] = NoRet]
    /\ UNCHANGED <<QueueRest, q_head, q_tail, q_next, q_data, q_nodes, head_mutex,
                   tail_mutex, data_cond, q_p, q_value, q_seen, q_pushes>>

\* line 52: std::unique_lock<std::mutex> head_lock(head_mutex); also the
\* lock wait takes again, once the thread has been notified, before it
\* evaluates the predicate again.
QueueLockHead(t) ==
    /\ \/ pc[t] = "q_lock_head"
       \/ pc[t] = "q_blocked" /\ t \notin data_cond
    /\ head_mutex = NoThread
    /\ head_mutex' = t
    /\ pc' = [pc EXCEPT ![t] = "q_get_tail"]
    /\ UNCHANGED <<QueueRest, q_head, q_tail, q_next, q_data, q_nodes, tail_mutex,
                   data_cond, q_p, q_value, q_seen, q_pushes, q_pops, ret>>

\* line 53, the predicate of wait: head.get() != get_tail().
DataReady(t) == q_head # q_seen[t]

\* line 53: the predicate calls get_tail(), lines 40-43, which reads tail
\* under tail_mutex; head_mutex is held throughout.
QueueGetTail(t) ==
    /\ pc[t] = "q_get_tail"
    /\ tail_mutex = NoThread
    /\ q_seen' = [q_seen EXCEPT ![t] = q_tail]
    /\ pc' = [pc EXCEPT ![t] = "q_test"]
    /\ UNCHANGED <<QueueRest, q_head, q_tail, q_next, q_data, q_nodes, head_mutex,
                   tail_mutex, data_cond, q_p, q_value, q_pushes, q_pops, ret>>

\* line 53: wait(lock, pred) is while (!pred()) wait(lock).  When the
\* predicate holds wait_for_data returns the lock (line 54); otherwise
\* wait(lock) unlocks head_mutex and blocks the thread, atomically.
QueueWait(t) ==
    /\ pc[t] = "q_test"
    /\ IF DataReady(t)
       THEN /\ pc' = [pc EXCEPT ![t] = "q_pop_head"]
            /\ UNCHANGED <<head_mutex, data_cond>>
       ELSE /\ head_mutex' = NoThread
            /\ data_cond' = data_cond \cup {t}
            /\ pc' = [pc EXCEPT ![t] = "q_blocked"]
    /\ UNCHANGED <<QueueRest, q_head, q_tail, q_next, q_data, q_nodes, tail_mutex,
                   q_p, q_value, q_seen, q_pushes, q_pops, ret>>

\* pop_head, lines 46-48, under head_mutex; line 59 ends head_lock's scope;
\* line 94: return old_head->data.
QueuePopHead(t) ==
    /\ pc[t] = "q_pop_head"
    /\ q_head' = q_next[q_head]
    /\ head_mutex' = NoThread
    /\ ret' = [ret EXCEPT ![t] = q_data[q_head]]
    /\ q_seen' = [q_seen EXCEPT ![t] = Null]
    /\ pc' = [pc EXCEPT ![t] = "idle"]
    /\ UNCHANGED <<QueueRest, q_tail, q_next, q_data, q_nodes, tail_mutex, data_cond,
                   q_p, q_value, q_pushes, q_pops>>

NextQueue ==
    \E t \in Threads :
        \/ QueuePush(t) \/ QueuePushLock(t) \/ QueuePushLink(t)
        \/ QueuePushUnlock(t) \/ QueueNotifyOne(t)
        \/ QueueWaitAndPop(t) \/ QueueLockHead(t) \/ QueueGetTail(t)
        \/ QueueWait(t) \/ QueuePopHead(t)

Next == NextCounter \/ NextHazard \/ NextSplit \/ NextMutex \/ NextQueue

Spec == Init /\ [][Next]_vars

\* Some thread that can take a step takes one; no thread in particular is
\* promised a step, so any one of them may stall for ever inside a call.
LiveSpec == Spec /\ WF_vars(Next)

\* ------------------------------------------------------------- properties
\* Positions of a pop that has won the unlink CAS and not yet moved the
\* payload out of its node.
BeforeSwap == {"cp_swap", "hp_clear", "hp_swap", "sp_swap"}

\* Positions at which a pop is about to dereference, or hand to the CAS, the
\* node it read from head.
HoldsCounter == {"cp_next", "cp_cas", "cp_swap"}
HoldsHazard == {"hp_next", "hp_cas"}
HoldsSplit == {"sp_next", "sp_cas", "sp_swap", "sp_fold", "sp_release"}

\* The program under test is one of the three stacks.
StackVariant == variant \in {"counter", "hazard", "split"}

Returned(t) ==
    StackVariant /\ pc[t] = "idle" /\ ret[t] # NoRet /\ ret[t] # ResourceError

RECURSIVE ChainFrom(_, _, _)
ChainFrom(p, link, n) ==
    IF p = Null \/ n = 0 THEN {}
    ELSE {p} \cup ChainFrom(link[p], link, n - 1)

\* The nodes on the shared deferred lists.
Deferred ==
    ChainFrom(to_be_deleted, next, MaxNodes)
        \cup ChainFrom(nodes_to_reclaim, reclaim_next, MaxNodes)

\* C1: every pop returns the value the abstract LIFO stack yields at the pop's
\* linearization point (the successful unlink CAS, or the load that saw head
\* null), in each of the three variants.
C1_Linearizable == \A t \in Threads : Returned(t) => ret[t] = lin[t]

\* C1, the two variants whose pop has a return statement.
C1_LinearizableWithReturn ==
    variant # "hazard" => \A t \in Threads : Returned(t) => ret[t] = lin[t]

C1_WitnessWithReturn ==
    /\ variant # "hazard"
    /\ \E t \in Threads : Returned(t) /\ ret[t] \in Values /\ pops > 1

\* C2: every returned value was pushed, no value is returned twice, and once
\* the stack has been drained and no call is in progress every pushed value
\* has been returned exactly once.
C2_NoLossNoDuplication ==
    /\ popped[Indeterminate] = 0
    /\ \A v \in Values : popped[v] <= 1 /\ (popped[v] = 1 => v <= pushes)
    /\ (Quiescent /\ head = Null) =>
           \A v \in Values : v <= pushes => popped[v] = 1

\* C2, the two variants whose pop has a return statement.
C2_NoLossNoDuplicationWithReturn ==
    variant # "hazard" => C2_NoLossNoDuplication

C2_WitnessWithReturn ==
    /\ variant # "hazard"
    /\ started = Threads
    /\ Quiescent /\ head = Null
    /\ pushes = MaxPush /\ pops = MaxPop

\* The payloads of the linked nodes, from head down.
RECURSIVE Contents(_, _)
Contents(p, n) ==
    IF p = Null \/ n = 0 THEN <<>>
    ELSE <<data[p]>> \o Contents(next[p], n - 1)

\* C3: with a single thread calling, pop returns the most recently pushed
\* value not yet popped, and empty when there is none; between calls the
\* linked nodes hold exactly the values pushed and not yet popped, newest
\* first.
C3_SingleThreadLifo ==
    (StackVariant /\ Cardinality(started) <= 1 /\ Quiescent) =>
        /\ Contents(head, MaxNodes) = abs_stack
        /\ \A t \in Threads : Returned(t) => ret[t] = lin[t]

\* C3, the two variants whose pop has a return statement.
C3_SingleThreadLifoWithReturn == variant # "hazard" => C3_SingleThreadLifo

C3_WitnessWithReturn ==
    /\ variant # "hazard"
    /\ Cardinality(started) = 1
    /\ \E t \in Threads : Returned(t) /\ ret[t] = 1 /\ pushes = 2 /\ pops = 2

\* C4: a pop that finds the stack empty returns the empty result, and no
\* variant faults on the way, whatever the number of threads in pop.
C4_EmptyPop ==
    StackVariant =>
        /\ fault = "none"
        /\ \A t \in Threads : (Returned(t) /\ lin[t] = Empty) => ret[t] = Empty

\* C4, the two variants in which an empty-handed pop dereferences nothing.
C4_EmptyPopElsewhere == variant = "split" => C4_EmptyPop

C4_WitnessElsewhere ==
    /\ variant = "split"
    /\ \E t \in Threads : Returned(t) /\ lin[t] = Empty
    /\ \E u \in Threads : pc[u] \in HoldsSplit

\* A step in which t's unlink CAS fails: t leaves the CAS without having
\* unlinked anything.
LosesCas(t) ==
    /\ pc[t] \in {"cp_cas", "hp_cas", "sp_cas"}
    /\ pc'[t] \in {"cp_next", "tr_check", "hp_publish", "sp_release"}

OneUnlinkPerNode ==
    /\ \A k \in Values : unlinks[k] <= 1
    /\ \A t \in Threads :
           (pc[t] \in BeforeSwap /\ old_id[t] # 0) =>
               unlinks[old_id[t]] = 1 /\ unlinker[old_id[t]] = t

\* C5: a node is unlinked by at most one successful CAS and a thread past the
\* unlink CAS is its node's unlinker; a failed CAS changes neither head nor
\* the unlink count and leaves the loser holding the head value it compared
\* against, not the node it lost.
C5_OneUnlinkPerNode ==
    /\ []OneUnlinkPerNode
    /\ [][\A t \in Threads :
              LosesCas(t) =>
                  /\ old_head'[t] = head
                  /\ head' = head
                  /\ unlinks' = unlinks]_vars

C5_Witness ==
    \E t, u \in Threads :
        /\ t # u
        /\ pc[t] \in BeforeSwap
        /\ old_id[t] # 0
        /\ unlinker[old_id[t]] = t
        /\ pc[u] = "sp_release"
        /\ old_id[u] = old_id[t]

\* C6: the payload of a node is moved out at most once, by the thread that
\* unlinked the node and by no other; once that thread is past the swap the
\* payload has been moved out exactly once, and only emptied nodes are on a
\* deferred list.
C6_PayloadOnce ==
    \A k \in Values :
        /\ extracts[k] <= 1
        /\ extracts[k] <= unlinks[k]
        /\ extracts[k] = 1 => extractor[k] = unlinker[k]
        /\ (/\ unlinks[k] = 1
            /\ fault = "none"
            /\ ~(pc[unlinker[k]] \in BeforeSwap /\ old_id[unlinker[k]] = k))
               => extracts[k] = 1
        /\ \A a \in Deferred : nid[a] = k => data[a] = Empty

C6_Witness ==
    \E k \in Values :
        /\ extracts[k] = 1
        /\ \E u \in Threads :
               /\ u # unlinker[k]
               /\ old_id[u] = k
               /\ pc[u] \in {"cp_cas", "hp_cas", "sp_cas", "sp_release"}

\* C7: no node is freed twice: each node is freed at most once, every node
\* on a deferred list is still allocated (so a node its unlinker freed
\* directly is on no deferred list) and has been unlinked from the
\* stack.
C7_NoDoubleFree ==
    /\ fault # "double_free"
    /\ \A k \in Values : frees[k] <= 1
    /\ \A a \in Deferred : alloc[a] /\ unlinks[nid[a]] = 1

C7_Witness ==
    /\ \E k \in Values : frees[k] = 1
    /\ Deferred # {}

\* C8: in the hazard pointer variant a node whose address a thread has
\* published and confirmed against head is not freed while the slot holds
\* the address: at the read of next and at the CAS the slot holds old_head
\* and old_head is the live node that was read.
C8_HazardProtects ==
    \A t \in Threads :
        pc[t] \in HoldsHazard =>
            /\ hp_pointer[hazard[t]] = old_head[t]
            /\ hp_id[hazard[t]] = t
            /\ alloc[old_head[t]]
            /\ nid[old_head[t]] = old_id[t]

C8_Witness ==
    \E t \in Threads :
        /\ pc[t] \in HoldsHazard
        /\ unlinks[old_id[t]] = 1
        /\ nodes_to_reclaim = old_head[t]

\* C9: in the pop-counter variant no node is freed while a thread that read
\* it from head in its current pop can still dereference it, and the nodes
\* a thread is about to free (the deferred list it claimed, or its own node)
\* are held by no other thread inside pop.
C9_CounterProtects ==
    /\ fault # "use_after_free"
    /\ \A t \in Threads :
           pc[t] \in HoldsCounter =>
               alloc[old_head[t]] /\ nid[old_head[t]] = old_id[t]
    /\ \A t, u \in Threads :
           (t # u /\ pc[u] \in HoldsCounter) =>
               /\ pc[t] = "tr_delnodes" =>
                      old_head[u] \notin ChainFrom(nodes[t], next, MaxNodes)
               /\ pc[t] = "tr_delhead" => old_head[u] # old_head[t]

C9_Witness ==
    \E t \in Threads :
        /\ pc[t] \in HoldsCounter
        /\ unlinks[old_id[t]] = 1
        /\ unlinker[old_id[t]] # t
        /\ to_be_deleted = old_head[t]

\* C10: in the split-count variant a node is not freed while a thread that
\* raised the external count on it has yet to give its reference back: from
\* the read of next to the fold or the release, ptr is the live node whose
\* count the thread raised.
C10_SplitProtects ==
    \A t \in Threads :
        pc[t] \in HoldsSplit =>
            alloc[ptr[t]] /\ nid[ptr[t]] = old_id[t]

C10_Witness ==
    \E t \in Threads :
        /\ pc[t] = "sp_release"
        /\ unlinks[old_id[t]] = 1
        /\ extracts[old_id[t]] = 1
        /\ internal_count[ptr[t]] = 1

\* The nodes reachable from head.
Linked == ChainFrom(head, next, MaxNodes)

\* How far the k-th pushed node has come: 0 not yet allocated, 1 allocated,
\* 2 linked (reachable from head), 3 unlinked (deferred or not), 4 freed.
Stage(k) ==
    IF frees[k] >= 1 THEN 4
    ELSE IF \E a \in Linked : nid[a] = k THEN 2
    ELSE IF unlinks[k] >= 1 THEN 3
    ELSE IF k <= pushes THEN 1
    ELSE 0

LifecycleState ==
    /\ fault \notin {"use_after_free", "double_free"}
    /\ \A k \in Values : frees[k] <= 1 /\ frees[k] <= unlinks[k]
    /\ \A a \in Linked : alloc[a] /\ unlinks[nid[a]] = 0
    /\ \A a \in Deferred : alloc[a] /\ a \notin Linked

\* C11: a node only moves forward through allocated, linked, unlinked (with
\* any number of deferrals) and freed: its stage never decreases, the nodes
\* reachable from head are live and not yet unlinked, the deferred nodes are
\* live and not reachable from head, and a freed node is not freed again,
\* dereferenced, deferred or linked.
C11_Lifecycle ==
    /\ []LifecycleState
    /\ [][\A k \in Values : Stage(k)' >= Stage(k)]_vars

\* A second node lives at the address of a node already freed, and is linked.
C11_Witness ==
    /\ frees[1] = 1
    /\ head = 1
    /\ nid[head] = 2
    /\ \E t \in Threads : pc[t] \notin {"idle", "crashed"}

\* One or more pops have run from start to end with no other call in
\* progress, and no call has begun since.
AfterSoloPops == Quiescent /\ solo >= 1

\* C12: in the hazard-pointer and pop-counter variants, once no thread is
\* inside push or pop, the deferred list is empty after the pops that follow
\* (here: after any pop that ran alone), whether or not they found the stack
\* empty.
C12_EventualReclamation ==
    (variant \in {"counter", "hazard"} /\ AfterSoloPops) => Deferred = {}

\* C12, the pop-counter variant: one pop that runs alone empties the list.
C12_EventualReclamationCounter ==
    (variant = "counter" /\ AfterSoloPops) => Deferred = {}

\* A deferred node has just been freed by a pop that ran alone.
C12_WitnessCounter ==
    /\ variant = "counter"
    /\ AfterSoloPops
    /\ \E k \in Values : frees[k] = 1 /\ unlinker[k] \in Threads /\ pops = MaxPop
    /\ \E t \in Threads : ret[t] = Empty

\* All threads have stopped, every pop call unlinked a node, every pushed
\* node has been unlinked and the stack is empty.
AllMatched ==
    /\ Quiescent
    /\ head = Null
    /\ pushes >= 1
    /\ pops = pushes
    /\ \A v \in Values : v <= pushes => unlinks[v] = 1

\* C13: once all threads have stopped, with every push matched by a
\* successful pop and the stack empty, every node that was allocated has been
\* freed, in each of the three variants.
C13_NoLeakAtQuiescence == AllMatched => \A a \in Addr : ~alloc[a]

\* C13, variant by variant.
C13_NoLeakHazard == variant = "hazard" => C13_NoLeakAtQuiescence
C13_NoLeakSplit == variant = "split" => C13_NoLeakAtQuiescence

C13_WitnessHazard ==
    variant = "hazard" /\ AllMatched /\ started = Threads /\ pushes = MaxPush
C13_WitnessSplit ==
    variant = "split" /\ AllMatched /\ started = Threads /\ pushes = MaxPush

\* Every entry of the table is owned, and none by t.
AllOwnedByOthers(t) == \A i \in Slots : hp_id[i] \notin {NoThread, t}

\* t is in pop_using_hazard_pointers, past the acquisition of its entry.
PastAcquire(t) ==
    /\ variant = "hazard"
    /\ pc[t] \notin {"idle", "crashed", "push_load", "push_cas", "hp_acquire"}

\* The threads that own entries are all alive: none of them has ended and
\* released its entry.
OwnersAlive == exited = {}

ExhaustionState ==
    \A t \in Threads :
        /\ pc[t] = "hp_acquire" =>
               /\ hazard[t] = 0
               /\ \A i \in Slots : hp_id[i] # t
               /\ OwnersAlive => \A i \in 1..scan[t] : hp_id[i] # NoThread
        /\ PastAcquire(t) => hazard[t] \in Slots /\ hp_id[hazard[t]] = t
        /\ (pc[t] = "idle" /\ ret[t] = ResourceError) =>
               /\ hazard[t] = 0
               /\ OwnersAlive => AllOwnedByOthers(t)

\* t's hp_owner constructor throws in this step.
Throws(t) == pc[t] = "hp_acquire" /\ pc'[t] = "idle"

\* C14: with every entry of the table owned by other threads, a thread's
\* first hazard-pointer pop reports the resource error, acquires no entry and
\* leaves head, the list of nodes to reclaim and every entry unchanged; the
\* error is raised only when every entry is owned, and a thread that lost a
\* race for one entry goes on to the next.
C14_SlotExhaustionOnPop ==
    /\ []ExhaustionState
    /\ [][\A t \in Threads :
              /\ Throws(t) =>
                     /\ ret'[t] = ResourceError
                     /\ AllOwnedByOthers(t)
                     /\ UNCHANGED <<head, nodes_to_reclaim, reclaim_next, hp_id,
                                    hp_pointer, hazard, heapVars>>
              /\ (pc[t] = "hp_acquire" /\ AllOwnedByOthers(t)) =>
                     pc'[t] \in {"hp_acquire", "idle"}]_vars

\* t was refused after the last free entry went to the other caller.
C14_Witness ==
    \E t, u \in Threads :
        /\ t # u
        /\ pc[t] = "idle" /\ ret[t] = ResourceError
        /\ hp_id[HazardSlots] = u
        /\ hp_id[1] = OtherThread
        /\ PastAcquire(u)

\* C15: in the hazard-pointer variant, with every entry of the table owned by
\* other threads, a thread's first push reports the resource error: no push
\* by a thread without an entry links a node.
C15_SlotExhaustionOnPush ==
    (variant = "hazard" /\ \A t \in Threads : AllOwnedByOthers(t)) =>
        head = Null /\ abs_stack = <<>>
\* ------------------------------------------------------------- progress
\* Calls of push and pop that have returned.
Completed == pushes + pops - Cardinality({t \in Threads : pc[t] # "idle"})

Crashed == fault # "none"

\* Every failed attempt to link or unlink a node is paid for by a CAS that
\* decided the result of a call (it linked a node, unlinked one, or found the
\* stack empty): between two of those each other thread fails at most once.
FutileBounded == futile <= Cardinality(Threads) - 1

\* Calls keep returning, or from some point on no call is in progress (or
\* the program has run into undefined behaviour): no run goes on for ever
\* inside calls that never return.
SomeCallCompletes ==
    \/ []<><<Completed' > Completed>>_vars
    \/ <>[](Quiescent \/ Crashed)

PoppersOnly ==
    \A t \in Threads :
        pc[t] \in {"sp_increase", "sp_next", "sp_cas", "sp_swap", "sp_fold",
                   "sp_delete", "sp_release", "sp_release_delete"}

\* C17: in the split-count variant, too, an unlink CAS fails only after a
\* CAS that decided the result of a call, so poppers cannot go on failing
\* each other's unlink CAS by raising the external count while no call
\* completes.
C17_LockFreeSplit == (variant = "split" /\ PoppersOnly) => FutileBounded

\* ------------------------------------------------------------- hierarchy
\* The values of the mutexes t holds, in the order t acquired them.
HeldValues(t) == [i \in DOMAIN held[t] |-> hierarchyValue[held[t][i]]]

StrictlyDecreasing(s) == \A i, j \in DOMAIN s : i < j => s[i] > s[j]

\* t holds a mutex, and m's value is not below that of the mutex t locked
\* most recently among those it holds.
NotLower(t, m) ==
    /\ held[t] # <<>>
    /\ hierarchyValue[m] >= hierarchyValue[held[t][Len(held[t])]]

HierarchyState ==
    \A t \in Threads :
        /\ StrictlyDecreasing(HeldValues(t))
        /\ \A i \in DOMAIN held[t] : internalMutex[held[t][i]] = t
        /\ thisThreadHierarchyValue[t] =
               IF held[t] = <<>> THEN UlongMax
               ELSE hierarchyValue[held[t][Len(held[t])]]

\* C18: the mutexes a thread holds have strictly decreasing values in the
\* order it acquired them; lock() or try_lock() on a mutex whose value is
\* not below that of the one the thread locked most recently raises the
\* hierarchy error, acquires nothing and leaves the thread's hierarchy value
\* as it was; a mutex a holder acquires has a strictly lower value.
C18_HierarchyOrdering ==
    /\ []HierarchyState
    /\ [][\A t \in Threads : \A m \in Mutexes :
            /\ ((Lock(t, m) \/ TryLock(t, m)) /\ NotLower(t, m)) =>
                   /\ ret'[t] = HierarchyError
                   /\ pc'[t] = "idle"
                   /\ UNCHANGED mutexVars
            /\ (internalMutex[m] # t /\ internalMutex'[m] = t /\ held[t] # <<>>) =>
                   hierarchyValue[m] < hierarchyValue[held[t][Len(held[t])]]]_vars

\* A thread holds two mutexes and its latest call was refused.
C18_Witness ==
    \E t \in Threads : Len(held[t]) = 2 /\ ret[t] = HierarchyError

\* ------------------------------------------------------------- push step
\* The linked nodes from p on, in order.
RECURSIVE LinkedFrom(_, _)
LinkedFrom(p, n) ==
    IF p = Null \/ n = 0 THEN <<>>
    ELSE <<p>> \o LinkedFrom(next[p], n - 1)

\* Everything held in the node at address a.
NodeAt(a) ==
    <<alloc[a], data[a], next[a], next_count[a], internal_count[a], nid[a],
      reclaim_next[a]>>

\* t's compare_exchange in push (lock_free_stack.h line 100, split count
\* line 64) takes a step.
PushCasStep(t) == PushCas(t) \/ SplitPushCas(t)

\* C19: a successful CAS of push makes head the new node, whose next-link is
\* exactly the head value replaced (pointer and, in the split-count variant,
\* count); the nodes linked before stay linked in their order behind it, and
\* no node, counter, deferred list or hazard slot changes.  A failed CAS
\* changes nothing shared: only the next-link of the caller's own unpublished
\* node is refreshed from head, and the caller stays at the CAS.
C19_PushStep ==
    [][\A t \in Threads : PushCasStep(t) =>
          IF head' = new_node[t]
          THEN /\ next'[head'] = head
               /\ variant = "split" => next_count'[head'] = head_count
               /\ LinkedFrom(head, MaxNodes)' = <<new_node[t]>> \o LinkedFrom(head, MaxNodes)
               /\ UNCHANGED <<heapVars, counterVars, hazardVars>>
               /\ pc'[t] = "idle"
          ELSE /\ UNCHANGED <<stackVars, counterVars, hazardVars>>
               /\ \A a \in Addr \ {new_node[t]} : NodeAt(a)' = NodeAt(a)
               /\ new_node[t] \notin ChainFrom(head, next, MaxNodes) \cup Deferred
               /\ next'[new_node[t]] = head
               /\ variant = "split" => next_count'[new_node[t]] = head_count
               /\ pc'[t] = pc[t]
               /\ new_node'[t] = new_node[t]]_vars

\* Two pushes raced: one's CAS has linked its node, the other's CAS failed
\* and left its node's next-link pointing at the new head, ready to retry.
C19_Witness ==
    /\ pops = 0
    /\ futile = 1
    /\ head # Null
    /\ \E t \in Threads :
           /\ pc[t] \in {"push_cas", "sp_push_cas"}
           /\ next[new_node[t]] = head

\* ------------------------------------------------------------- publication
\* t is about to attempt the unlink CAS of line 149 (old_head->next is read
\* first) on the node old_head[t].
AtUnlinkCas(t) == variant = "hazard" /\ pc[t] \in {"hp_next", "hp_cas"}

\* The slot t owns holds the node t is about to unlink, and that node is
\* what the re-read of head returned.
PublishedAndConfirmed(t) ==
    /\ old_head[t] # Null
    /\ hp_id[hazard[t]] = t
    /\ hp_pointer[hazard[t]] = old_head[t]
    /\ temp[t] = old_head[t]

\* C20: the hazard-pointer pop attempts the unlink CAS on a node only while
\* its own slot holds that node's address and a read of head made after the
\* publication returned it; when the re-read differs or the CAS fails, the
\* thread publishes the new candidate and re-reads head before it attempts
\* the CAS again.
C20_PublicationProtocol ==
    /\ [](\A t \in Threads : AtUnlinkCas(t) => PublishedAndConfirmed(t))
    /\ [][\A t \in Threads : variant = "hazard" =>
            /\ (pc'[t] = "hp_next" /\ pc[t] # "hp_next") =>
                   /\ pc[t] = "hp_reread"
                   /\ hp_pointer[hazard[t]] = head
                   /\ old_head'[t] = head
            /\ (pc'[t] = "hp_cas" /\ pc[t] # "hp_cas") => pc[t] = "hp_next"
            /\ (pc[t] = "hp_reread" /\ pc'[t] # "hp_reread" /\ head # temp[t]) =>
                   pc'[t] = "hp_publish" /\ old_head'[t] = head
            /\ (pc[t] = "hp_cas" /\ pc'[t] # "hp_cas" /\ head # old_head[t]) =>
                   pc'[t] = "hp_publish" /\ old_head'[t] = head
            /\ (pc[t] = "hp_publish" /\ pc'[t] # "hp_publish") =>
                   /\ pc'[t] = "hp_reread"
                   /\ hp_pointer'[hazard[t]] = old_head[t]]_vars

\* The only pop so far lost its unlink CAS, has published the new head and
\* confirmed it, and is at the CAS again; the other thread is between calls.
C20_Witness ==
    /\ variant = "hazard"
    /\ pops = 1
    /\ futile = 1
    /\ \E t \in Threads :
           /\ pc[t] = "hp_cas"
           /\ PublishedAndConfirmed(t)
           /\ \A u \in Threads \ {t} : pc[u] = "idle"

\* ------------------------------------------------------------- slot clearing
\* t has unlinked the node old_head[t] and has not yet extracted its payload
\* and freed it or put it on the list of nodes to reclaim.
HandlingUnlinked(t) ==
    /\ variant = "hazard"
    /\ pc[t] \in {"hp_swap", "hp_check", "hp_later", "hp_later_cas", "hp_delete"}

\* C21: in the hazard-pointer pop the thread's slot keeps the address of the
\* node it unlinked until the payload has been extracted and the node has
\* been freed or put on the deferred list.
C21_SlotKeptUntilHandled ==
    \A t \in Threads : HandlingUnlinked(t) => hp_pointer[hazard[t]] = old_head[t]

\* What the code does: from the store of line 151 on, which follows the
\* unlink CAS at once, the slot of the unlinking thread is null.
C21_SlotClearedFirst ==
    \A t \in Threads :
        (HandlingUnlinked(t) \/ (variant = "hazard" /\ pc[t] \in
            {"hp_sweep", "hp_sw_loop", "hp_sw_scan", "hp_sw_delete", "hp_sw_add",
             "hp_sw_add_cas"})) => hp_pointer[hazard[t]] = Null

\* A thread is extracting the payload of the node it unlinked.
C21_WitnessClearedFirst ==
    \E t \in Threads : variant = "hazard" /\ pc[t] = "hp_swap" /\ old_head[t] # Null

\* ------------------------------------------------------------- free decision
\* C22: the thread that unlinked a node scans the table from the first entry
\* to the last, one entry at a time; it goes on to free the node only when
\* every entry, at the moment it was read, did not hold the node's address;
\* as soon as an entry holds it, the thread puts the node on the deferred
\* list, and no step of that branch frees the node.
C22_FreeDecision ==
    /\ [](\A t \in Threads :
            (variant = "hazard" /\ pc[t] \in {"hp_clear", "hp_swap"}) => scan[t] = 0)
    /\ [][\A t \in Threads :
            /\ HazardPopCheck(t) =>
                 LET i == scan[t] + 1
                     found == hp_pointer[i] = old_head[t] IN
                 /\ found => pc'[t] = "hp_later"
                 /\ (~found /\ i < HazardSlots) => pc'[t] = "hp_check" /\ scan'[t] = i
                 /\ (~found /\ i = HazardSlots) => pc'[t] = "hp_delete"
                 /\ UNCHANGED <<heapVars, nodes_to_reclaim, reclaim_next, frees>>
            /\ HazardPopDelete(t) =>
                 /\ ~alloc'[old_head[t]]
                 /\ frees'[nid[old_head[t]]] = frees[nid[old_head[t]]] + 1
                 /\ UNCHANGED <<nodes_to_reclaim, reclaim_next>>
            /\ (ReclaimLater(t) \/ ReclaimLaterCas(t)) =>
                 /\ UNCHANGED <<heapVars, frees>>
                 /\ pc'[t] = "hp_sweep" =>
                        /\ nodes_to_reclaim' = old_head[t]
                        /\ reclaim_next'[old_head[t]] = nodes_to_reclaim]_vars

\* A thread found the node it unlinked in another thread's slot and has put
\* it on the deferred list: the node is on the list, not freed.
C22_Witness ==
    \E t \in Threads :
        /\ variant = "hazard"
        /\ pc[t] = "hp_sweep"
        /\ nodes_to_reclaim = old_head[t]
        /\ alloc[old_head[t]]
        /\ \E i \in Slots : hp_pointer[i] = old_head[t]

\* ------------------------------------------------------------- sweep
\* The nodes on the shared list of nodes to reclaim.
SharedList == ChainFrom(nodes_to_reclaim, reclaim_next, MaxNodes)

\* The entries t's sweep has taken and not yet freed or put back: the current
\* one and those after it.
Taken(t) ==
    IF variant = "hazard" /\ pc[t] = "hp_sw_loop"
    THEN ChainFrom(nodes[t], reclaim_next, MaxNodes)
    ELSE IF variant = "hazard"
            /\ pc[t] \in {"hp_sw_scan", "hp_sw_delete", "hp_sw_add", "hp_sw_add_cas"}
    THEN {nodes[t]} \cup ChainFrom(nxt[t], reclaim_next, MaxNodes)
    ELSE {}

\* The node t has unlinked and not yet freed or put on the list.
InHand(t) ==
    IF /\ variant = "hazard"
       /\ pc[t] \in {"hp_clear", "hp_swap", "hp_check", "hp_later", "hp_later_cas",
                     "hp_delete"}
       /\ old_head[t] # Null
    THEN {old_head[t]}
    ELSE {}

\* In how many places the unlinked node at a is kept.
Keepers(a) ==
    Cardinality({t \in Threads : a \in Taken(t)})
        + Cardinality({t \in Threads : a \in InHand(t)})
        + (IF a \in SharedList THEN 1 ELSE 0)

\* Every unlinked node that has not been freed is in exactly one place: on
\* the shared list, among the entries one sweep has taken, or in the hands of
\* the thread that unlinked it; nothing freed is in any of them.
SweepState ==
    variant = "hazard" =>
        \A a \in Addr :
            /\ (alloc[a] /\ unlinks[nid[a]] >= 1) => Keepers(a) = 1
            /\ ~alloc[a] => Keepers(a) = 0

\* C23: delete_nodes_with_no_hazards takes the whole deferred list in one
\* exchange and leaves it empty, so no entry is in two sweeps; it frees a
\* taken node only after a scan that found it in no slot, and puts every
\* other taken node back at the front of the list; what other threads append
\* meanwhile never becomes part of what the sweep has taken, and no node is
\* lost.
C23_Sweep ==
    /\ []SweepState
    /\ [][\A t \in Threads :
            /\ DeleteNodesWithNoHazards(t) =>
                 /\ Taken(t)' = SharedList
                 /\ nodes_to_reclaim' = Null
                 /\ UNCHANGED <<heapVars, reclaim_next, frees>>
            /\ (Taken(t) # {} /\ Taken(t)' # {}) => Taken(t)' \subseteq Taken(t)
            /\ SweepCheck(t) =>
                 LET i == scan[t] + 1
                     found == hp_pointer[i] = nodes[t] IN
                 /\ found => pc'[t] = "hp_sw_add"
                 /\ (~found /\ i < HazardSlots) => pc'[t] = "hp_sw_scan" /\ scan'[t] = i
                 /\ (~found /\ i = HazardSlots) => pc'[t] = "hp_sw_delete"
                 /\ UNCHANGED <<heapVars, nodes_to_reclaim, reclaim_next, frees>>
            /\ SweepDelete(t) =>
                 /\ ~alloc'[nodes[t]]
                 /\ \A a \in Addr \ {nodes[t]} : alloc'[a] = alloc[a]
                 /\ SharedList' = SharedList
            /\ (SweepAdd(t) \/ SweepAddCas(t)) =>
                 /\ UNCHANGED <<heapVars, frees>>
                 /\ pc'[t] = "hp_sw_loop" => SharedList' = SharedList \cup {nodes[t]}
                 /\ pc'[t] # "hp_sw_loop" => SharedList' = SharedList]_vars

\* A sweep holds an entry it took while the shared list, emptied by the
\* sweep's exchange, holds a node appended since.
C23_Witness ==
    \E t \in Threads : Taken(t) # {} /\ SharedList # {} /\ pc[t] = "hp_sw_scan"

\* A step by which thread t leaves pop_using_hazard_pointers through its end
\* (line 163), not through the exception of hp_owner's constructor.
HazardPopEnds(t) ==
    /\ variant = "hazard"
    /\ pc[t] \in {"hp_load", "hp_publish", "hp_reread", "hp_next", "hp_cas",
                  "hp_clear", "hp_swap", "hp_check", "hp_later", "hp_later_cas",
                  "hp_delete", "hp_sweep", "hp_sw_loop", "hp_sw_scan",
                  "hp_sw_delete", "hp_sw_add", "hp_sw_add_cas"}
    /\ pc'[t] = "idle"
    /\ ret'[t] # ResourceError

\* C24: every call of the hazard-pointer pop, one that finds the stack empty
\* included, runs the sweep of the deferred list before it returns: a call
\* ends only from the sweep's loop, with nothing left in the sweep's hand.
C24_SweepOnEveryPop ==
    [][\A t \in Threads :
          HazardPopEnds(t) => (pc[t] = "hp_sw_loop" /\ nodes[t] = Null)]_vars

\* C24 for the calls that unlinked a node: each of them ends from the sweep.
C24_SweepAfterUnlink ==
    [][\A t \in Threads :
          (HazardPopEnds(t) /\ old_head[t] # Null) =>
              (pc[t] = "hp_sw_loop" /\ nodes[t] = Null)]_vars

\* A pop that found the stack empty is about to return while a node waits on
\* the deferred list.
C24_WitnessEmptyPop ==
    \E t \in Threads :
        /\ variant = "hazard"
        /\ pc[t] = "hp_clear"
        /\ old_head[t] = Null
        /\ nodes_to_reclaim # Null

\* ------------------------------------------------------------- ownership of entries
\* The entries of the table whose id is thread t's.
OwnedBy(t) == {i \in Slots : hp_id[i] = t}

\* Each thread's hp_owner holds the one entry whose id is the thread's; a
\* thread without an hp_owner owns none; no two threads hold the same entry.
SlotOwnership ==
    variant = "hazard" =>
        /\ \A t \in Threads :
              /\ hazard[t] \in Slots => OwnedBy(t) = {hazard[t]}
              /\ hazard[t] = 0 => OwnedBy(t) = {}
        /\ \A t, u \in Threads : (t # u /\ hazard[t] # 0) => hazard[t] # hazard[u]

\* C25: a thread acquires its entry in its first hazard-pointer pop, by the
\* CAS on the id of an entry that is unowned, every earlier entry having been
\* tried (and, as long as no entry has been released, being owned); at every
\* moment no entry is held by two threads and no thread owns two entries; a
\* later pop of the thread goes straight to the load of head with the same
\* entry, and the entry changes only when the thread ends.
C25_SlotOwnership ==
    /\ []SlotOwnership
    /\ [][\A t \in Threads :
              /\ (HazardPop(t) /\ hazard[t] = 0) => pc'[t] = "hp_acquire"
              /\ (HazardPop(t) /\ hazard[t] # 0) =>
                     pc'[t] = "hp_load" /\ UNCHANGED <<hp_id, hazard>>
              /\ (hazard[t] = 0 /\ hazard'[t] # 0) =>
                     /\ pc[t] = "hp_acquire"
                     /\ hazard'[t] = scan[t] + 1
                     /\ hp_id[hazard'[t]] = NoThread
                     /\ hp_id'[hazard'[t]] = t
                     /\ \A i \in Slots \ {hazard'[t]} : hp_id'[i] = hp_id[i]
                     /\ exited = {} => \A i \in 1..scan[t] : hp_id[i] # NoThread
              /\ (hazard[t] # 0 /\ hazard'[t] # hazard[t]) =>
                     pc[t] = "hp_release" /\ t \in exited]_vars

\* Both threads own an entry, the second having lost the first entry to the
\* other, and one of them is in a later pop with the entry it took.
C25_Witness ==
    \E t, u \in Threads :
        /\ t # u
        /\ hazard[t] = 1 /\ hp_id[1] = t
        /\ hazard[u] = 2 /\ hp_id[2] = u
        /\ pops = MaxPop
        /\ pc[u] = "hp_cas"

\* C26: when a thread that owns an entry ends, the entry's pointer is set to
\* null and then its id to the unowned value, and the thread owns nothing
\* afterwards; an entry owned by a caller changes its id in no other step, so
\* it is never released while its owner can still call pop; a released entry
\* is free for the CAS of another thread's hp_owner.
C26_SlotRelease ==
    /\ [](variant = "hazard" =>
            \A t \in Threads :
                /\ pc[t] = "hp_release" =>
                       /\ t \in exited
                       /\ hazard[t] \in Slots
                       /\ hp_id[hazard[t]] = t
                       /\ hp_pointer[hazard[t]] = Null
                /\ (t \in exited /\ pc[t] = "idle") =>
                       hazard[t] = 0 /\ OwnedBy(t) = {}
                /\ (t \notin exited /\ hazard[t] # 0) => hp_id[hazard[t]] = t)
    /\ [][\A t \in Threads :
              /\ ThreadExit(t) =>
                     /\ hp_pointer'[hazard[t]] = Null
                     /\ UNCHANGED <<hp_id, hazard>>
              /\ HpOwnerRelease(t) =>
                     /\ hp_id'[hazard[t]] = NoThread
                     /\ \E i \in Slots : i = hazard[t] /\ SlotFree(i)'
                     /\ hazard'[t] = 0
              /\ \A i \in Slots :
                     (hp_id[i] = t /\ hp_id'[i] # t) =>
                         /\ pc[t] = "hp_release"
                         /\ t \in exited
                         /\ hp_pointer[i] = Null]_vars

\* The entry a thread released when it ended is now owned by the other
\* thread: the first entry is another thread's, so the second is the one the
\* thread that ended had owned.
C26_Witness ==
    \E t, u \in Threads :
        /\ t \in exited /\ pc[t] = "idle"
        /\ u \notin exited
        /\ hp_id[1] = OtherThread
        /\ hp_id[2] = u /\ hazard[u] = 2

\* ------------------------------------------------------------- threads_in_pop
\* t is in pop() between ++threads_in_pop (line 104) and the decrement of
\* try_reclaim (line 52 or line 65).
Counted(t) ==
    pc[t] \in {"cp_load", "cp_next", "cp_cas", "cp_swap", "tr_check", "tr_xchg",
               "tr_dec", "tr_c1_load", "tr_c1_cas", "tr_dec2"}

\* t is in pop() past its decrement.
PastDecrement(t) ==
    pc[t] \in {"tr_delnodes", "tr_walk", "tr_cn_load", "tr_cn_cas", "tr_delhead"}

CountedThreads == {t \in Threads : Counted(t)}

\* C27: in the pop-counter variant threads_in_pop equals, in every state, the
\* number of threads between their increment and their decrement, so every
\* pop that incremented it decrements it, on every path; it is 0 whenever no
\* thread is inside pop().
C27_CounterAccounting ==
    variant = "counter" => threads_in_pop = Cardinality(CountedThreads)

\* C27 for as long as no pop has run into chain_pending_node(nullptr).
C27_AccountingWhileRunning ==
    (variant = "counter" /\ fault = "none") =>
        /\ threads_in_pop = Cardinality(CountedThreads)
        /\ Quiescent => threads_in_pop = 0

\* Both threads are inside pop(), one before and one past its decrement.
C27_WitnessWhileRunning ==
    /\ variant = "counter"
    /\ fault = "none"
    /\ threads_in_pop = 1
    /\ \E t, u \in Threads : Counted(t) /\ PastDecrement(u) /\ old_head[u] # Null

\* ------------------------------------------------------------- the sole popper
\* The nodes on to_be_deleted.
PendingList == ChainFrom(to_be_deleted, next, MaxNodes)

\* The nodes from p to l along next.
RECURSIVE Segment(_, _, _)
Segment(p, l, n) ==
    IF p = Null \/ n = 0 THEN {}
    ELSE IF p = l THEN {p}
    ELSE {p} \cup Segment(next[p], l, n - 1)

Rechaining(t) == pc[t] \in {"tr_walk", "tr_cn_load", "tr_cn_cas"}

\* The nodes t took from to_be_deleted (nodes_to_delete of try_reclaim) and
\* has neither deleted nor chained back.  From line 79 on the last of them
\* points into the shared list again.
Claimed(t) ==
    IF pc[t] \in {"tr_dec", "tr_delnodes", "tr_walk"}
    THEN ChainFrom(nodes[t], next, MaxNodes)
    ELSE IF pc[t] \in {"tr_cn_load", "tr_cn_cas"}
    THEN Segment(nodes[t], last[t], MaxNodes)
    ELSE {}

\* What a thread holds after the exchange is live and off the shared list.
ClaimedState ==
    variant = "counter" =>
        \A t \in Threads :
            /\ Claimed(t) \cap PendingList = {}
            /\ \A a \in Claimed(t) : alloc[a]
            /\ \A u \in Threads \ {t} : Claimed(t) \cap Claimed(u) = {}
            /\ Rechaining(t) => Claimed(t) # {}

\* C28: a thread that finds threads_in_pop equal to 1 takes the whole of
\* to_be_deleted in one exchange and then decrements the counter; it goes on
\* to delete the nodes it took only if the decrement gave 0, and otherwise
\* chains every one of them back onto to_be_deleted: none of them is freed
\* and, once the chaining CAS has succeeded, all of them are on the list.
C28_SolePopperBranch ==
    /\ []ClaimedState
    /\ [][\A t \in Threads :
            /\ TryReclaim(t) =>
                 /\ (pc'[t] = "tr_xchg") = (threads_in_pop = 1)
                 /\ UNCHANGED <<heapVars, counterVars, frees>>
            /\ TryReclaimExchange(t) =>
                 /\ Claimed(t)' = PendingList
                 /\ PendingList' = {}
                 /\ pc'[t] = "tr_dec"
                 /\ UNCHANGED <<heapVars, threads_in_pop, frees>>
            /\ TryReclaimDecrement(t) =>
                 /\ threads_in_pop' = threads_in_pop - 1
                 /\ (pc'[t] = "tr_delnodes") = (threads_in_pop' = 0)
                 /\ (threads_in_pop' # 0 /\ nodes[t] # Null) => pc'[t] = "tr_walk"
                 /\ Claimed(t)' = Claimed(t)
                 /\ UNCHANGED <<heapVars, to_be_deleted, frees>>
            /\ (pc[t] # "tr_delnodes" /\ pc'[t] = "tr_delnodes") =>
                 pc[t] = "tr_dec" /\ threads_in_pop' = 0
            /\ (DeleteNodes(t) /\ nodes[t] # Null) =>
                 /\ ~alloc'[nodes[t]]
                 /\ \A a \in Addr \ {nodes[t]} : alloc'[a] = alloc[a]
                 /\ Claimed(t)' = Claimed(t) \ {nodes[t]}
            /\ Rechaining(t) =>
                 /\ \A a \in Claimed(t) : alloc'[a]
                 /\ Rechaining(t)' => Claimed(t)' = Claimed(t)
                 /\ (pc'[t] \notin {"tr_walk", "tr_cn_load", "tr_cn_cas", "crashed"}) =>
                        /\ pc[t] = "tr_cn_cas"
                        /\ pc'[t] = "tr_delhead"
                        /\ PendingList' = PendingList \cup Claimed(t)]_vars

\* A thread that took a node from to_be_deleted found another thread in pop
\* at its decrement and is chaining the node back.
C28_Witness ==
    \E t \in Threads :
        /\ variant = "counter"
        /\ pc[t] = "tr_cn_cas"
        /\ Claimed(t) # {}
        /\ threads_in_pop = 1

\* ------------------------------------------------------------- the unlinked node
\* try_reclaim's first branch, lines 49-61, and its else branch, lines 63-65.
SoleBranch == {"tr_xchg", "tr_dec", "tr_delnodes", "tr_walk", "tr_cn_load",
               "tr_cn_cas", "tr_delhead"}
ElseBranch == {"tr_c1_load", "tr_c1_cas", "tr_dec2"}

\* t is in the else branch with the node it unlinked.
Deferring(t) == variant = "counter" /\ pc[t] \in ElseBranch /\ old_head[t] # Null

\* The nodes some thread took from to_be_deleted and still holds.
ClaimedBySome == UNION {Claimed(u) : u \in Threads}

\* In the else branch the node the thread unlinked is live and has not been
\* freed; once chained it is on to_be_deleted or in the hands of a thread
\* that took the list.
DeferringState ==
    \A t \in Threads :
        Deferring(t) =>
            /\ alloc[old_head[t]]
            /\ nid[old_head[t]] = old_id[t]
            /\ frees[old_id[t]] = 0
            /\ threads_in_pop >= 1
            /\ pc[t] = "tr_dec2" => old_head[t] \in PendingList \cup ClaimedBySome

\* C29: the popping thread deletes the node it unlinked itself (line 61) only
\* on the branch it entered by reading threads_in_pop as 1; when it read any
\* other value it chains the node onto to_be_deleted, then decrements the
\* counter and returns, and the node is not freed during that call.
C29_UnlinkedNodeFate ==
    /\ []DeferringState
    /\ [][\A t \in Threads :
            /\ (pc[t] \notin SoleBranch /\ pc'[t] \in SoleBranch) =>
                 pc[t] = "tr_check" /\ threads_in_pop = 1 /\ pc'[t] = "tr_xchg"
            /\ (pc[t] \notin ElseBranch /\ pc'[t] \in ElseBranch) =>
                 pc[t] = "tr_check" /\ threads_in_pop # 1 /\ pc'[t] = "tr_c1_load"
            /\ (pc[t] \in SoleBranch /\ pc'[t] \notin SoleBranch \cup {"crashed"}) =>
                 /\ pc[t] = "tr_delhead"
                 /\ pc'[t] = "idle"
                 /\ old_head[t] # Null =>
                        ~alloc'[old_head[t]] /\ frees'[old_id[t]] = frees[old_id[t]] + 1
            /\ (pc[t] # "tr_delhead" /\ old_head[t] # Null
                    /\ variant = "counter" /\ old_id[t] # 0
                    /\ unlinker[old_id[t]] = t /\ alloc[old_head[t]]
                    /\ nid[old_head[t]] = old_id[t]) =>
                 alloc'[old_head[t]]
            /\ (Deferring(t) /\ ChainPendingNodeLoad(t)) =>
                 /\ next'[old_head[t]] = to_be_deleted
                 /\ UNCHANGED <<alloc, counterVars, frees>>
            /\ (Deferring(t) /\ ChainPendingNodeCas(t)) =>
                 /\ UNCHANGED <<alloc, threads_in_pop, frees>>
                 /\ pc'[t] = "tr_dec2" =>
                        /\ to_be_deleted' = old_head[t]
                        /\ PendingList' = PendingList \cup {old_head[t]}
                 /\ pc'[t] # "tr_dec2" => UNCHANGED <<pc, to_be_deleted>>
            /\ (Deferring(t) /\ TryReclaimLeave(t)) =>
                 /\ threads_in_pop' = threads_in_pop - 1
                 /\ pc'[t] = "idle"
                 /\ alloc'[old_head[t]]
                 /\ UNCHANGED <<alloc, to_be_deleted, frees>>]_vars

\* A thread that read the counter as 2 has chained the node it unlinked and
\* is about to decrement: the node is the front of to_be_deleted, not freed.
C29_Witness ==
    \E t \in Threads :
        /\ Deferring(t)
        /\ pc[t] = "tr_dec2"
        /\ to_be_deleted = old_head[t]
        /\ unlinker[old_id[t]] = t
        /\ threads_in_pop = 2

\* ------------------------------------------------------------- reclamation stalls
\* The nodes waiting to be freed: on to_be_deleted, or taken from it.
Waiting == PendingList \cup ClaimedBySome

\* C30: in the pop-counter variant a node waiting on to_be_deleted is freed
\* only in delete_nodes, by the thread that took the list, and delete_nodes is
\* reached only by a thread that read the counter as 1, took the list, and
\* whose decrement gave 0; a node on the shared list itself is never freed.
\* So nothing is reclaimed for as long as no decrement of a thread that took
\* the list gives 0, that is, for as long as pops overlap.
C30_ReclamationStall ==
    [][variant = "counter" =>
        /\ \A a \in PendingList : alloc[a] /\ alloc'[a]
        /\ \A a \in Waiting :
              (alloc[a] /\ ~alloc'[a]) =>
                  \E t \in Threads :
                      /\ pc[t] = "tr_delnodes"
                      /\ nodes[t] = a
                      /\ a \in Claimed(t)
                      /\ DeleteNodes(t)
        /\ \A t \in Threads :
              /\ (pc[t] # "tr_delnodes" /\ pc'[t] = "tr_delnodes") =>
                     /\ pc[t] = "tr_dec"
                     /\ threads_in_pop = 1
                     /\ threads_in_pop' = 0
              /\ (pc[t] # "tr_dec" /\ pc'[t] = "tr_dec") =>
                     pc[t] = "tr_xchg" /\ nodes'[t] = to_be_deleted
              /\ (pc[t] # "tr_xchg" /\ pc'[t] = "tr_xchg") =>
                     pc[t] = "tr_check" /\ threads_in_pop = 1
              /\ (pc[t] = "tr_dec" /\ pc'[t] \notin {"tr_dec", "crashed"}
                      /\ threads_in_pop > 1) =>
                     /\ pc'[t] \in {"tr_walk", "tr_delhead"}
                     /\ Waiting' = Waiting
                     /\ UNCHANGED <<alloc, frees>>]_vars

\* A thread that took the list found the other thread in pop at its decrement
\* and has chained the node back: its attempt is over, every pop of the run
\* has begun, and the node is still on to_be_deleted.
C30_Witness ==
    \E t \in Threads :
        /\ variant = "counter"
        /\ pc[t] = "tr_delhead"
        /\ nodes[t] # Null
        /\ nodes[t] \in PendingList
        /\ alloc[nodes[t]]
        /\ pops = MaxPop

\* ------------------------------------------------------------- split count, acquire
\* t holds a reference it took on the node ptr[t] by increase_head_count and
\* has not given back.
Referencing(t) == variant = "split" /\ pc[t] \in HoldsSplit

\* A thread that holds a reference took it on a live node, and until its
\* unlink CAS its copy of head is that node with a count that includes its
\* own increase.
AcquiredState ==
    \A t \in Threads :
        /\ Referencing(t) => (ptr[t] # Null /\ alloc[ptr[t]] /\ nid[ptr[t]] = old_id[t])
        /\ (variant = "split" /\ pc[t] \in {"sp_next", "sp_cas"}) =>
               old_head[t] = ptr[t] /\ old_count[t] >= 2

\* C31: a successful CAS of increase_head_count replaces head {p, c} by
\* {p, c + 1} for the pointer and count head holds at that step, and a failed
\* one only refreshes the caller's copy from head; a pop reaches the read of
\* next or of the internal count of a node only through such a successful
\* step on that node, after which its copy of head is that pointer with the
\* count it installed.
C31_AcquireStep ==
    /\ []AcquiredState
    /\ [][\A t \in Threads :
            /\ IncreaseHeadCount(t) =>
                 IF head = old_head[t] /\ head_count = old_count[t]
                 THEN /\ head' = head
                      /\ head_count' = head_count + 1
                      /\ UNCHANGED <<heapVars, frees>>
                      /\ head # Null =>
                             /\ pc'[t] = "sp_next"
                             /\ ptr'[t] = head
                             /\ old_head'[t] = head
                             /\ old_count'[t] = head_count'
                      /\ head = Null => pc'[t] = "idle" /\ ret'[t] = Empty
                 ELSE /\ UNCHANGED <<stackVars, heapVars, pc, frees>>
                      /\ old_head'[t] = head
                      /\ old_count'[t] = head_count
            /\ (variant = "split" /\ pc[t] \notin HoldsSplit /\ pc'[t] \in HoldsSplit) =>
                 /\ pc[t] = "sp_increase"
                 /\ pc'[t] = "sp_next"
                 /\ head' = ptr'[t]
                 /\ head_count' = head_count + 1]_vars

\* Both threads hold a reference on the node at head; the second increase was
\* made on the count the first had installed.
C31_Witness ==
    \E t, u \in Threads :
        /\ t # u
        /\ Referencing(t) /\ pc[t] = "sp_next"
        /\ Referencing(u) /\ pc[u] \in {"sp_next", "sp_cas"}
        /\ ptr[t] = head /\ ptr[u] = head
        /\ old_count[u] = 2
        /\ old_count[t] = 3
        /\ head_count = 3

\* ------------------------------------------------------------- split count, winner
\* The threads other than t that hold a reference on the node at address a.
OtherHolders(t, a) == {u \in Threads \ {t} : Referencing(u) /\ ptr[u] = a}

\* C32: the thread whose unlink CAS succeeded adds its copy of the external
\* count less 2 to the node's internal count in one step, and goes on to
\* delete the node exactly when the sum is 0; otherwise it returns the
\* payload and the node stays, live, with a positive internal count and a
\* thread that has yet to release it.  The fold is reached only by the
\* thread whose CAS unlinked the node.
C32_WinnerFold ==
    [][\A t \in Threads :
         /\ (pc[t] # "sp_fold" /\ pc'[t] = "sp_fold") =>
              /\ pc[t] = "sp_swap"
              /\ unlinker[old_id[t]] = t
              /\ unlinks[old_id[t]] = 1
         /\ (pc[t] # "sp_swap" /\ pc'[t] = "sp_swap") =>
              /\ pc[t] = "sp_cas"
              /\ head = ptr[t] /\ head_count = old_count[t]
              /\ UNCHANGED old_count
         /\ SplitPopFold(t) =>
              LET a == ptr[t] IN
              /\ internal_count'[a] = internal_count[a] + (old_count[t] - 2)
              /\ \A b \in Addr \ {a} : internal_count'[b] = internal_count[b]
              /\ UNCHANGED <<alloc, frees, stackVars>>
              /\ (pc'[t] = "sp_delete") = (internal_count'[a] = 0)
              /\ internal_count'[a] # 0 =>
                     /\ pc'[t] = "idle"
                     /\ ret'[t] = res[t]
                     /\ internal_count'[a] > 0
                     /\ OtherHolders(t, a) # {}
              /\ internal_count'[a] = 0 => OtherHolders(t, a) = {}
         /\ SplitPopDelete(t) =>
              /\ alloc[ptr[t]] /\ ~alloc'[ptr[t]]
              /\ internal_count[ptr[t]] = 0
              /\ pc'[t] = "idle"
              /\ ret'[t] = res[t]]_vars

\* The winner has returned the payload without deleting the node: the other
\* thread still holds the reference it took before the unlink.
C32_Witness ==
    \E t, u \in Threads :
        /\ t # u
        /\ variant = "split"
        /\ pc[t] = "idle"
        /\ ret[t] \in Values
        /\ unlinker[ret[t]] = t
        /\ Referencing(u)
        /\ old_id[u] = ret[t]
        /\ alloc[ptr[u]]
        /\ internal_count[ptr[u]] = 1

Publishing == {"hp_publish", "hp_reread", "hp_next", "hp_cas", "hp_clear"}

\* The threads whose table entry holds the address p.
Protectors(p) ==
    {u \in Threads : hazard[u] # 0 /\ hp_id[hazard[u]] = u /\ hp_pointer[hazard[u]] = p}

\* C34: a table entry that holds an address belongs to a thread that is
\* inside pop_using_hazard_pointers, between its publication and line 151;
\* the entry of a thread that is idle, pushing, past line 151 or leaving is
\* null.  Hence a scan that finds a node protected, in pop (line 156) or in
\* the sweep (line 117), finds the entry of another thread that is inside
\* pop at that moment.
C34_SlotsEmptyOutsidePop ==
    /\ [](variant = "hazard" =>
            /\ \A i \in Slots :
                   hp_pointer[i] # Null =>
                       \E t \in Threads :
                           hazard[t] = i /\ hp_id[i] = t /\ pc[t] \in Publishing
            /\ \A t \in Threads :
                   (hazard[t] # 0 /\ pc[t] \notin Publishing) =>
                       hp_pointer[hazard[t]] = Null)
    /\ [][\A t \in Threads :
            /\ (pc[t] = "hp_check" /\ pc'[t] = "hp_later") =>
                   \E u \in Protectors(old_head[t]) \ {t} : pc[u] \in Publishing
            /\ (pc[t] = "hp_sw_scan" /\ pc'[t] = "hp_sw_add") =>
                   \E u \in Protectors(nodes[t]) \ {t} : pc[u] \in Publishing]_vars

\* A thread has returned from a pop in which it published a node, and now
\* pushes, its entry null, while the other thread sweeps the deferred list.
C34_Witness ==
    \E t, u \in Threads :
        /\ t # u
        /\ variant = "hazard"
        /\ hazard[t] # 0
        /\ hp_id[hazard[t]] = t
        /\ hp_pointer[hazard[t]] = Null
        /\ pc[t] = "push_cas"
        /\ pops >= 2
        /\ pc[u] = "hp_sw_scan"

\* ------------------------------------------------------------- split count, accounting
\* The threads that have increased the count for the node at a and have
\* neither folded nor subtracted their reference yet.
Holders(a) == {t \in Threads : Referencing(t) /\ ptr[t] = a}

\* The external count stored beside the pointer to the linked node at a: in
\* head, or in the next-link of the node linked before it.
ExternalCount(a) ==
    IF head = a THEN head_count
    ELSE next_count[CHOOSE b \in Linked : next[b] = a]

\* The threads whose CAS has unlinked the node at a and that have not yet
\* folded the external count in.
Folding(a) == {t \in Threads : pc[t] \in {"sp_swap", "sp_fold"} /\ ptr[t] = a}

\* The threads about to delete the node at a.
Deleting(a) ==
    {t \in Threads : pc[t] \in {"sp_delete", "sp_release_delete"} /\ ptr[t] = a}

\* The node at a is live, unlinked, and its winner has folded the count in.
Folded(a) ==
    /\ alloc[a] /\ a \notin Linked
    /\ unlinks[nid[a]] = 1
    /\ Folding(a) = {}

\* C35: for a linked node, with e the count beside the pointer to it,
\* (e - 1) + internal_count is the number of threads holding a reference;
\* the same holds, with e the winner's copy, from the unlink to the fold;
\* after the fold internal_count is the number of threads still holding a
\* reference and never negative, it is 0 exactly when the thread that
\* brought it to 0 is about to delete the node, and a node is freed only
\* then.
C35_Accounting ==
    /\ [](variant = "split" =>
            \A a \in Addr :
                /\ a \in Linked =>
                       /\ alloc[a]
                       /\ (ExternalCount(a) - 1) + internal_count[a]
                              = Cardinality(Holders(a))
                       /\ Deleting(a) = {}
                /\ (alloc[a] /\ Folding(a) # {}) =>
                       /\ a \notin Linked
                       /\ Cardinality(Folding(a)) = 1
                       /\ \A w \in Folding(a) :
                              (old_count[w] - 1) + internal_count[a]
                                  = Cardinality(Holders(a))
                       /\ Deleting(a) = {}
                /\ Folded(a) =>
                       /\ internal_count[a] = Cardinality(Holders(a))
                       /\ internal_count[a] >= 0
                       /\ (internal_count[a] = 0) = (Deleting(a) # {})
                       /\ Cardinality(Deleting(a)) <= 1)
    /\ [][variant = "split" =>
            \A a \in Addr :
                /\ (alloc[a] /\ ~alloc'[a]) =>
                       /\ Folded(a)
                       /\ internal_count[a] = 0
                       /\ Holders(a) = {}
                /\ (Deleting(a)' # {} /\ Deleting(a) = {}) =>
                       /\ Folded(a)'
                       /\ internal_count'[a] = 0
                       /\ \/ Folding(a) # {}
                          \/ Folded(a) /\ internal_count[a] = 1]_vars

\* A linked node, once more at head after the node pushed above it was
\* popped, with external count 3 and internal count -1: two threads took a
\* reference on it, one has given its reference back, the other holds it.
C35_Witness ==
    \E a \in Addr :
        /\ variant = "split"
        /\ head = a
        /\ pushes = 2
        /\ unlinks[2] = 1
        /\ nid[a] = 1
        /\ ExternalCount(a) = 3
        /\ internal_count[a] = -1
        /\ Cardinality(Holders(a)) = 1

\* ------------------------------------------------------------- split count, empty pop
\* The external count stored with the null pointer that ends the list: in
\* head when the stack is empty, else in the next-link of the last node.
NullCount ==
    IF head = Null THEN head_count
    ELSE next_count[CHOOSE b \in Linked : next[b] = Null]

\* t's step is a pop that finds the stack empty and returns.
EmptyPopStep(t) == pc[t] = "sp_increase" /\ pc'[t] = "idle" /\ ret'[t] = Empty

\* C36: the count stored with the null pointer starts at 0, goes up by one
\* with each pop that finds the stack empty and changes in no other step; a
\* push onto the empty stack carries it into the new node's next-link and
\* the pop that empties the stack puts it back in head.
C36_EmptyPopCount ==
    /\ variant = "split" => NullCount = 0
    /\ [](variant = "split" => NullCount >= 0 /\ NullCount <= pops)
    /\ [][variant = "split" =>
            /\ (\E t \in Threads : EmptyPopStep(t)) =>
                   /\ head = Null /\ head' = Null
                   /\ head_count' = head_count + 1
                   /\ NullCount' = NullCount + 1
            /\ (~ \E t \in Threads : EmptyPopStep(t)) => NullCount' = NullCount
            /\ (head = Null /\ head' # Null) =>
                   /\ next'[head'] = Null
                   /\ next_count'[head'] = head_count
                   /\ head_count' = 1
            /\ (head # Null /\ head' = Null) =>
                   /\ next[head] = Null
                   /\ head_count' = next_count[head]]_vars

\* Two pops found the stack empty; a node was pushed and popped since, and
\* head is null again with count 2.
C36_Witness ==
    /\ variant = "split"
    /\ head = Null
    /\ head_count = 2
    /\ pops = 3
    /\ unlinks[1] = 1
    /\ \A t \in Threads : pc[t] = "idle"

\* ------------------------------------------------------------- deferred lists
\* The chain from p along link reaches null within n nodes.
RECURSIVE EndsWithin(_, _, _)
EndsWithin(p, link, n) ==
    \/ p = Null
    \/ n > 0 /\ EndsWithin(link[p], link, n - 1)

\* Pop-counter variant: the node t has unlinked and has neither deleted
\* (line 61) nor chained onto to_be_deleted (line 80 by way of line 64).
Unchained(t) ==
    IF /\ variant = "counter"
       /\ pc[t] \in {"cp_swap", "tr_check", "tr_c1_load", "tr_c1_cas"} \cup SoleBranch
       /\ old_head[t] # Null
    THEN {old_head[t]}
    ELSE {}

\* In how many places the unlinked node at a is kept, pop-counter variant.
PendingKeepers(a) ==
    Cardinality({t \in Threads : a \in Unchained(t)})
        + Cardinality({t \in Threads : a \in Claimed(t)})
        + (IF a \in PendingList THEN 1 ELSE 0)

\* C37: in the hazard-pointer and the pop-counter variant every node that
\* is unlinked and not freed is in exactly one place: with the thread that
\* unlinked it, on the shared deferred list, or in the list one sweeping or
\* claiming thread has taken; no other node is in any of these places; and
\* the shared list, like every list taken from it, ends in null without
\* passing a node twice.
C37_Conservation ==
    /\ SweepState
    /\ variant = "hazard" =>
           /\ EndsWithin(nodes_to_reclaim, reclaim_next, MaxNodes)
           /\ \A a \in Addr :
                  (alloc[a] /\ unlinks[nid[a]] = 0) => Keepers(a) = 0
           /\ \A t \in Threads :
                  pc[t] = "hp_sw_loop" => EndsWithin(nodes[t], reclaim_next, MaxNodes)
    /\ (variant = "counter" /\ fault = "none") =>
           /\ EndsWithin(to_be_deleted, next, MaxNodes)
           /\ \A a \in Addr :
                  /\ (alloc[a] /\ unlinks[nid[a]] >= 1) => PendingKeepers(a) = 1
                  /\ (alloc[a] /\ unlinks[nid[a]] = 0) => PendingKeepers(a) = 0
                  /\ ~alloc[a] => PendingKeepers(a) = 0
           /\ \A t \in Threads :
                  pc[t] \in {"tr_dec", "tr_delnodes", "tr_walk"} =>
                      EndsWithin(nodes[t], next, MaxNodes)

\* Pop-counter variant: both threads have unlinked a node and found the
\* other in pop; one has chained its node, the other's CAS is still to come
\* and will fail on the list as it is now.
C37_Witness ==
    \E t, u \in Threads :
        /\ t # u
        /\ variant = "counter"
        /\ pc[t] = "tr_c1_cas"
        /\ old_head[u] # Null
        /\ PendingList = {old_head[u]}
        /\ ~ChainCasSucceeds(old_head[t])
        /\ Unchained(t) = {old_head[t]}

\* ------------------------------------------------------------- ABA
\* t's step is a successful unlink CAS: line 112 of lock_free_stack::pop,
\* line 149 of pop_using_hazard_pointers, line 96 of the split-count pop.
UnlinkStep(t) ==
    /\ pc[t] \in {"cp_cas", "hp_cas", "sp_cas"}
    /\ pc'[t] \in {"cp_swap", "hp_clear", "sp_swap"}
    /\ \E k \in Values : unlinks'[k] = unlinks[k] + 1

\* C38: with the addresses of freed nodes reused by later pushes, in each
\* of the three variants a successful unlink CAS finds at head the very
\* node, not a later one at the same address, for which the thread read the
\* pointer and the next-link, and installs in head the next-link that node
\* has at that instant.
C38_NoABA ==
    [][\A t \in Threads :
         UnlinkStep(t) =>
             /\ head # Null
             /\ alloc[head]
             /\ nid[head] = old_id[t]
             /\ unlinks[old_id[t]] = 0
             /\ frees[old_id[t]] = 0
             /\ nxt[t] = next[head]
             /\ head' = next[head]
             /\ variant = "split" =>
                    /\ nxt_count[t] = next_count[head]
                    /\ head_count' = next_count[head]]_vars

\* The first node was unlinked and freed, the second push was given its
\* address, and a thread other than the first node's unlinker has unlinked
\* the second node.
C38_Witness ==
    \E t \in Threads :
        /\ hwm = 1
        /\ frees[1] = 1
        /\ unlinks[2] = 1
        /\ unlinker[2] = t
        /\ unlinker[1] # t
        /\ pc[t] \in {"cp_swap", "hp_clear", "sp_swap"}

\* ------------------------------------------------------------- the queue's wake-up
\* t is blocked in data_cond.wait and no notification has reached it.
BlockedUnnotified(t) == variant = "queue" /\ pc[t] = "q_blocked" /\ t \in data_cond

\* An element is in the queue: a push has appended it and no consumer has
\* taken it.
ElementWaiting == q_head # q_tail

\* C39: a thread blocked in wait_and_pop() returns an element once a push
\* has completed and no other consumer has taken the element.  A blocked
\* thread that no notification has reached goes on only when some thread
\* calls notify_one, so the claim requires that, while an element is in the
\* queue and a thread is blocked without a notification, another thread is
\* still inside push, on its way to notify_one, or inside wait_and_pop, on
\* its way to take the element.
C39_NoLostWakeUp ==
    \A t \in Threads :
        (BlockedUnnotified(t) /\ ElementWaiting) =>
            \E u \in Threads \ {t} : pc[u] # "idle"

====
